---- MODULE Spec2Model ----
(***************************************************************************)
(* State-machine model of the workspace dashboard (workspace.tsx): the     *)
(* module registry with its two per-view stores (localStorage records      *)
(* ws_items_<mode> / ws_minimized_<mode>), the minimize/restore/delete     *)
(* lifecycle, the view switch, and the global task (todo) collection.      *)
(*                                                                         *)
(* One action models one event handler.  A handler runs to completion on   *)
(* the UI thread; the persistence effects (workspace.tsx 403-409) that     *)
(* React runs after the handler's state updates are part of the action.    *)
(***************************************************************************)
EXTENDS Integers, Sequences, FiniteSets, TLC

\* ------------------------------------------------------------------ bounds
MaxModules == 2      \* number of modules ever created (ids are never reused)
MaxTodos   == 3      \* length of the global task collection
MaxClock   == 3      \* last value of Date.now() the model lets addTodo read
MaxListLen == 3      \* length of a module list (a list may hold an id more than once)
MaxOrder   == 3      \* largest orderIndex (restore and create assign max + 1)
MaxSteps   == 6      \* number of handler calls in one run of the model
MaxEvents  == 2      \* number of calendar events saved
MaxImages  == 2      \* number of attachment files ever copied into the image store

\* --------------------------------------------------------------- constants
NoId       == 0      \* null / undefined id (deleteConfirmId, parentId, targetId)
Undefined  == 0 - 1  \* orderIndex is an own property holding undefined
Absent     == 0 - 2  \* the record has no orderIndex property at all
BigOrder   == 999999 \* the "?? 999999" sort key of a module without orderIndex
GridCols   == 10     \* modules per row of the default free placement
CellW      == 16     \* default placement step in x, and structured width
CellH      == 12     \* default placement step in y
ColumnWidth == 16
MaxRows == 50
DayTicks == 2
NoTime == -1
HolidayId == -1
WhiteboardMinLen == 50

Modes == {"free", "structured"}
OtherMode(m) == IF m = "free" THEN "structured" ELSE "free"

ModuleTypes == {"notepad", "todo", "whiteboard", "clock"}

\* MODULE_SPECS: default size per kind
SpecW(t) == CASE t = "notepad" -> 16 [] t = "clock" -> 8 [] t = "whiteboard" -> 16
              [] t = "calendar" -> 12 [] t = "todo" -> 12 [] t = "stickynote" -> 8
              [] t = "events" -> 14 [] t = "planner" -> 16
SpecH(t) == CASE t = "notepad" -> 12 [] t = "clock" -> 8 [] t = "whiteboard" -> 16
              [] t = "calendar" -> 12 [] t = "todo" -> 8 [] t = "stickynote" -> 8
              [] t = "events" -> 14 [] t = "planner" -> 12

DefaultTitle(t) == CASE t = "todo" -> "To-do (click to edit)"
                     [] t = "planner" -> "Planner"
                     [] t = "notepad" -> "Notepad"
                     [] t = "clock" -> "Clock"
                     [] t = "whiteboard" -> "Whiteboard"
                     [] OTHER -> "Module"

\* The content payload is opaque to the core; the core only reads its length
\* and the length of its trimmed form (requestDelete).
EmptyContent == [len |-> 0, trimLen |-> 0]
BlankContent == [len |-> 2, trimLen |-> 0]
ShortContent == [len |-> 4, trimLen |-> 4]
LongContent  == [len |-> 60, trimLen |-> 60]

NoPrevPos == [x |-> 0 - 1, y |-> 0 - 1, w |-> 0 - 1, h |-> 0 - 1]

\* Grid cells at which the model drops modules (layoutItem.x, layoutItem.y)
DropCells == {<<2, 3>>, <<5, 0>>}

\* ------------------------------------------------------- sequence helpers
Range(s) == {s[k] : k \in 1..Len(s)}

Ids(list) == {list[k].i : k \in 1..Len(list)}
HasId(list, id) == \E k \in 1..Len(list) : list[k].i = id
\* Array.prototype.find(i => i.i === id): the first match
FindIdx(list, id) == CHOOSE k \in 1..Len(list) :
                        list[k].i = id /\ \A j \in 1..(k - 1) : list[j].i # id
Find(list, id) == list[FindIdx(list, id)]
\* new Map(list.map(i => [i.i, i])).get(id): the last match
LastWith(list, id) == list[CHOOSE k \in 1..Len(list) :
                        list[k].i = id /\ \A j \in (k + 1)..Len(list) : list[j].i # id]
Without(list, id) == SelectSeq(list, LAMBDA m : m.i # id)

Max(S) == CHOOSE a \in S : \A b \in S : b <= a

\* i.orderIndex ?? d
OrderOr(m, d) == IF m.orderIndex < 0 THEN d ELSE m.orderIndex
\* items.length > 0 ? Math.max(...items.map(i => i.orderIndex ?? 0)) + 1 : 0
NextOrderIndex(list) ==
    IF Len(list) > 0 THEN Max({OrderOr(list[k], 0) : k \in 1..Len(list)}) + 1 ELSE 0

\* JSON.stringify drops a property whose value is undefined; JSON.parse
\* gives back a record without it.
Stored(m) == IF m.orderIndex = Undefined THEN [m EXCEPT !.orderIndex = Absent] ELSE m
StoredList(list) == [k \in 1..Len(list) |-> Stored(list[k])]

\* Array.prototype.sort((a, b) => key(a) - key(b)) is stable.
RECURSIVE InsertByOrder(_, _)
InsertByOrder(sorted, m) ==
    IF sorted = <<>> THEN <<m>>
    ELSE IF OrderOr(Head(sorted), BigOrder) <= OrderOr(m, BigOrder)
         THEN <<Head(sorted)>> \o InsertByOrder(Tail(sorted), m)
         ELSE <<m>> \o sorted
RECURSIVE SortByOrder(_)
SortByOrder(list) ==
    IF list = <<>> THEN <<>>
    ELSE InsertByOrder(SortByOrder(SubSeq(list, 1, Len(list) - 1)), list[Len(list)])

\* list.map((m, index) => ({...m, orderIndex: index}))
Reindex(list) == [k \in 1..Len(list) |-> [list[k] EXCEPT !.orderIndex = k - 1]]


\* ------------------------------------------------------------------- state
VARIABLES
    viewMode,         \* 'free' | 'structured'                 (useState, 377)
    items,            \* active modules of the current view    (useState, 380)
    minimizedItems,   \* minimized modules of the current view (useState, 389)
    store,            \* localStorage: mode -> [items, minimized] as parsed JSON
    globalTodos,      \* the flat task collection              (useState, 399)
    deleteConfirmId,  \* module awaiting delete confirmation   (useState, 461)
    nextId,           \* the next fresh module id (crypto.randomUUID never repeats)
    now,              \* the last value Date.now() returned
    status,           \* "running", or "crashed" / "hung" once a handler failed to return
    imageFiles,       \* the files in the image storage directory (imageUtils.ts)
    nextImage,        \* the next fresh image name (Date.now() + Math.random(), never repeats)
    draggedItemId,    \* module dragged in the grid, structured view only (useState, 438)
    activeId,         \* module dragged in the sortable row       (useState, 441)
    overId,           \* the module @dnd-kit reports the drag to be over (event.over)
    globalEvents,     \* the calendar events (useState, part_001 440)
    isDropping,       \* a toolbar or minimized-bar drag is under way (useState, 434)
    dragging,         \* the browser's drag gesture in progress: the toolbar type
                      \* (draggingType, 433), "chip" for a minimized module, "none"
    deleting,         \* the deleteTodo call suspended at an await (1014, 1028):
                      \* its id, the paths still to remove, whether its walk of
                      \* the descendants overflows the stack
    steps             \* handler calls so far (model bookkeeping, not program state)

prog == <<viewMode, items, minimizedItems, store, globalTodos, deleteConfirmId,
          nextId, now, status>>
\* the image store, outside the React component
imageStore == <<imageFiles, nextImage>>
\* the drag in progress
drag == <<draggedItemId, activeId, overId>>
\* all of it but the drop flag
other == <<imageFiles, nextImage, draggedItemId, activeId, overId, globalEvents, deleting>>
aux == <<imageFiles, nextImage, draggedItemId, activeId, overId, globalEvents, isDropping, dragging, deleting>>
vars == <<viewMode, items, minimizedItems, store, globalTodos, deleteConfirmId,
          nextId, now, status, imageFiles, nextImage, draggedItemId, activeId, overId,
          globalEvents, isDropping, dragging, deleting, steps>>

\* The stored module records: ws_items_<mode> and ws_minimized_<mode> of each
\* view, and ws_items and ws_minimized, which an earlier version of the
\* program wrote and this one only reads (384, 393).
StoreKeys == Modes \cup {"legacy"}

\* useEffect 403-409: after a handler's state updates the current view's lists
\* are written to ws_items_<viewMode> and ws_minimized_<viewMode>.
Persist(mode, its, mins, st) ==
    [st EXCEPT ![mode] = [items |-> StoredList(its), minimized |-> StoredList(mins)]]

\* no deleteTodo call is suspended
NoDelete == [id |-> NoId, pending |-> {}, overflows |-> FALSE]

Init ==
    /\ viewMode = "free"
    /\ items = <<>>
    /\ minimizedItems = <<>>
    /\ store = [m \in StoreKeys |-> [items |-> <<>>, minimized |-> <<>>]]
    /\ globalTodos = <<>>
    /\ deleteConfirmId = NoId
    /\ nextId = 1
    /\ now = 1
    /\ status = "running"
    /\ imageFiles = {}
    /\ nextImage = 1
    /\ draggedItemId = NoId
    /\ activeId = NoId
    /\ overId = NoId
    /\ globalEvents = <<>>
    /\ isDropping = FALSE
    /\ dragging = "none"
    /\ deleting = NoDelete
    /\ steps = 0

\* ----------------------------------------------------- layout computations
\* calculateStructuredLayout, the branch without any orderIndex: group by
\* type in toolbar order, keeping the list order inside each group.
TypeOrder == <<"notepad", "stickynote", "whiteboard", "todo", "planner",
               "calendar", "events", "clock">>
RECURSIVE GroupByType(_, _)
GroupByType(list, k) ==
    IF k > Len(TypeOrder) THEN <<>>
    ELSE SelectSeq(list, LAMBDA m : m.type = TypeOrder[k]) \o GroupByType(list, k + 1)

calculateStructuredLayout(modules) ==
    IF Len(modules) = 0 THEN <<>>
    ELSE IF \E k \in 1..Len(modules) : modules[k].orderIndex >= 0
         THEN Reindex(SortByOrder(modules))
         ELSE Reindex(GroupByType(modules, 1))

\* getSortedItems: first occurrence of each id, sorted by orderIndex ?? 999999
UniqueItems(list) ==
    LET keep == {k \in 1..Len(list) : \A j \in 1..(k - 1) : list[j].i # list[k].i}
        F[k \in 0..Len(list)] ==
            IF k = 0 THEN <<>>
            ELSE IF k \in keep THEN Append(F[k - 1], list[k]) ELSE F[k - 1]
    IN F[Len(list)]
getSortedItems(list) == SortByOrder(UniqueItems(list))

\* Variant: the target index is taken in the list that still holds the moved
\* element, so a move to the right lands one place short
arrayMove_ShortRight(list, from, to) ==
    LET rest == SubSeq(list, 1, from - 1) \o SubSeq(list, from + 1, Len(list))
        at   == IF from < to THEN to - 1 ELSE to
    IN SubSeq(rest, 1, at - 1) \o <<list[from]>> \o SubSeq(rest, at, Len(rest))
\* arrayMove(array, from, to) of @dnd-kit/sortable (1-based here)
arrayMove(list, from, to) ==
    LET rest == SubSeq(list, 1, from - 1) \o SubSeq(list, from + 1, Len(list))
    IN SubSeq(rest, 1, to - 1) \o <<list[from]>> \o SubSeq(rest, to, Len(rest))

\* toggleViewMode 598-612: {...newItem, ...currentItem, x,y,w,h: newItem's}
MergeItem(newItem, currentItem) ==
    [currentItem EXCEPT
        !.x = newItem.x, !.y = newItem.y, !.w = newItem.w, !.h = newItem.h,
        !.prevPos = IF currentItem.prevPos = NoPrevPos THEN newItem.prevPos
                    ELSE currentItem.prevPos,
        !.orderIndex = IF currentItem.orderIndex = Absent THEN newItem.orderIndex
                       ELSE currentItem.orderIndex]

MergedItems(newItems, current) ==
    [k \in 1..Len(newItems) |->
        IF HasId(current, newItems[k].i)
        THEN MergeItem(newItems[k], LastWith(current, newItems[k].i))
        ELSE newItems[k]]

ItemsToAdd(newItems, current) == SelectSeq(current, LAMBDA m : ~HasId(newItems, m.i))

\* Variant: every module of the free view is given a default grid slot, the
\* modules that already had a rectangle included
ItemsWithDefaults_All(merged, toAdd) ==
    [k \in 1..Len(merged \o toAdd) |->
        [(merged \o toAdd)[k] EXCEPT
            !.x = ((k - 1) % GridCols) * CellW,
            !.y = ((k - 1) \div GridCols) * CellH,
            !.w = SpecW((merged \o toAdd)[k].type),
            !.h = SpecH((merged \o toAdd)[k].type)]]

\* toggleViewMode 624-633: items new to the free view get a default grid slot
ItemsWithDefaults(merged, toAdd) ==
    merged \o [k \in 1..Len(toAdd) |->
        [toAdd[k] EXCEPT
            !.x = ((Len(merged) + (k - 1)) % GridCols) * CellW,
            !.y = ((Len(merged) + (k - 1)) \div GridCols) * CellH,
            !.w = SpecW(toAdd[k].type),
            !.h = SpecH(toAdd[k].type)]]

\* The list shown after a switch from `current` (in memory) to newMode
ToggledItems(newMode, current, newItems) ==
    LET merged == MergedItems(newItems, current)
        toAdd  == ItemsToAdd(newItems, current)
    IN IF newMode = "structured"
       THEN calculateStructuredLayout(merged \o toAdd)
       ELSE ItemsWithDefaults(merged, toAdd)


\* The module lists have no bound in the program (a restore in free view and a
\* view switch can append an id that is already listed); the model stops at
\* MaxListLen entries per list.
\* Nor has orderIndex: every restore and create in structured view assigns
\* max + 1, and nothing renumbers; the model stops at MaxOrder.
ListBounded(list) ==
    /\ Len(list) <= MaxListLen
    /\ \A k \in 1..Len(list) : list[k].orderIndex <= MaxOrder
InBounds ==
    /\ ListBounded(items) /\ ListBounded(minimizedItems)
    /\ \A m \in Modes : ListBounded(store[m].items) /\ ListBounded(store[m].minimized)

\* A handler is called while the application runs; the model counts the call.
Called == status = "running" /\ steps < MaxSteps /\ steps' = steps + 1

\* ------------------------------------------------------- module operations
\* The drop target (ReactGridLayout with onDrop) is rendered only in free
\* view (workspace.tsx 1685-1717); structured view renders the sortable row.
DropEnabled == viewMode = "free"
SortableEnabled == viewMode = "structured"

NewItem(id, type, cell) ==
    [i |-> id,
     x |-> IF viewMode = "structured" THEN 0 ELSE cell[1],
     y |-> IF viewMode = "structured" THEN 0 ELSE cell[2],
     w |-> IF viewMode = "structured" THEN CellW ELSE SpecW(type),
     h |-> SpecH(type),
     type |-> type,
     title |-> DefaultTitle(type), content |-> EmptyContent, themeIndex |-> 0,
     prevPos |-> NoPrevPos,
     orderIndex |-> IF viewMode = "structured" THEN NextOrderIndex(items) ELSE Undefined]

\* Variant: the record of the current view is written to the other view as is
OtherViewItem_Verbatim(newItem, otherMode, otherItems) == newItem

\* onDrop 759-779: the record written into the other view's stored list
OtherViewItem(newItem, otherMode, otherItems) ==
    [newItem EXCEPT
        !.x = IF otherMode = "structured" THEN 0 ELSE (Len(otherItems) % GridCols) * CellW,
        !.y = IF otherMode = "structured" THEN 0 ELSE (Len(otherItems) \div GridCols) * CellH,
        !.w = IF otherMode = "structured" THEN CellW ELSE SpecW(newItem.type),
        !.h = SpecH(newItem.type),
        !.orderIndex = IF otherMode = "structured" THEN NextOrderIndex(otherItems)
                       ELSE Undefined]

\* onDrop, creation path (723-782): a toolbar drag of `type` released on `cell`
OnDropCreate(type, cell) ==
    /\ Called
    /\ DropEnabled
    /\ nextId <= MaxModules
    /\ IF type = "clock" /\ \E k \in 1..Len(items) : items[k].type = "clock"
       THEN UNCHANGED prog                       \* "Only one clock allowed!"
       ELSE LET newItem    == NewItem(nextId, type, cell)
                otherMode  == OtherMode(viewMode)
                otherItems == store[otherMode].items
                items1     == IF HasId(items, nextId) THEN items ELSE Append(items, newItem)
                store1     == IF HasId(otherItems, nextId) THEN store
                              ELSE [store EXCEPT ![otherMode].items =
                                      StoredList(Append(otherItems,
                                          OtherViewItem(newItem, otherMode, otherItems)))]
            IN /\ items' = items1
               /\ store' = Persist(viewMode, items1, minimizedItems, store1)
               /\ nextId' = nextId + 1
               /\ UNCHANGED <<viewMode, minimizedItems, globalTodos, deleteConfirmId, now, status>>
    /\ isDropping' = FALSE                       \* set by onDragStart (645), cleared at 725, 781
    /\ dragging' = "none"
    /\ UNCHANGED other
    /\ InBounds'

\* minimizeModule (785-794)
MinimizedCopy(item) ==
    [item EXCEPT !.prevPos = [x |-> item.x, y |-> item.y, w |-> item.w, h |-> item.h]]

MinimizeModule(id) ==
    /\ Called
    /\ IF ~HasId(items, id)
       THEN UNCHANGED prog                       \* if (!item) return
       ELSE LET item == Find(items, id)
                mins1 == Append(minimizedItems, MinimizedCopy(item))
                items1 == Without(items, id)
            IN /\ minimizedItems' = mins1
               /\ items' = items1
               /\ store' = Persist(viewMode, items1, mins1, store)
               /\ UNCHANGED <<viewMode, globalTodos, deleteConfirmId, nextId, now, status>>
    /\ UNCHANGED aux
    /\ InBounds'

\* prevPos?.f || fallback
PrevOr(item, f, fallback) ==
    IF item.prevPos = NoPrevPos \/ item.prevPos[f] = 0 THEN fallback ELSE item.prevPos[f]

\* restoreModule / onDrop restore path: the mirror into the other view's
\* stored records (832-859, 690-717)
RestoreOther(st, otherMode, id) ==
    LET otherMinimized == st[otherMode].minimized
    IN IF ~HasId(otherMinimized, id) THEN st
       ELSE LET otherItem  == Find(otherMinimized, id)
                otherItems == st[otherMode].items
                otherRestored ==
                    IF otherMode = "structured"
                    THEN [otherItem EXCEPT !.orderIndex = NextOrderIndex(otherItems)]
                    ELSE [otherItem EXCEPT
                            !.x = PrevOr(otherItem, "x", 0),
                            !.y = PrevOr(otherItem, "y", 0),
                            !.w = PrevOr(otherItem, "w", otherItem.w),
                            !.h = PrevOr(otherItem, "h", otherItem.h)]
            IN [st EXCEPT ![otherMode] =
                    [items |-> StoredList(Append(otherItems, otherRestored)),
                     minimized |-> Without(otherMinimized, id)]]

\* restoreModule(id) without a drop position (796-860): a click on the
\* minimized bar
RestoreModule(id) ==
    /\ Called
    /\ LET item == Find(minimizedItems, id)
       IN IF ~HasId(minimizedItems, id)
          THEN UNCHANGED prog                    \* if (!item) return
          ELSE IF viewMode = "structured" /\ HasId(items, id)
          THEN UNCHANGED prog                    \* "Item already exists, don't restore"
          ELSE LET restoredItem ==
                       IF viewMode = "structured"
                       THEN [item EXCEPT !.orderIndex = NextOrderIndex(items)]
                       ELSE [item EXCEPT
                               !.x = PrevOr(item, "x", 0),
                               !.y = PrevOr(item, "y", 0),
                               !.w = PrevOr(item, "w", item.w),
                               !.h = PrevOr(item, "h", item.h)]
                   items1 == Append(items, restoredItem)
                   mins1  == Without(minimizedItems, id)
               IN /\ items' = items1
                  /\ minimizedItems' = mins1
                  /\ store' = Persist(viewMode, items1, mins1,
                                      RestoreOther(store, OtherMode(viewMode), id))
                  /\ UNCHANGED <<viewMode, globalTodos, deleteConfirmId, nextId, now, status>>
    /\ UNCHANGED aux
    /\ InBounds'

\* onDrop, restore path (660-721): a minimized module dragged onto `cell`
OnDropRestore(id, cell) ==
    /\ Called
    /\ DropEnabled
    /\ HasId(minimizedItems, id)
    /\ LET itemToRestore == Find(minimizedItems, id)
           items1 ==
               IF viewMode = "structured"
               THEN IF HasId(items, id) THEN items
                    ELSE Append(items,
                           [itemToRestore EXCEPT !.orderIndex = NextOrderIndex(items)])
               ELSE Append(items,
                      [itemToRestore EXCEPT
                          !.x = cell[1], !.y = cell[2],
                          !.w = PrevOr(itemToRestore, "w", itemToRestore.w),
                          !.h = PrevOr(itemToRestore, "h", itemToRestore.h)])
           mins1 == Without(minimizedItems, id)
       IN /\ items' = items1
          /\ minimizedItems' = mins1
          /\ store' = Persist(viewMode, items1, mins1,
                              RestoreOther(store, OtherMode(viewMode), id))
    /\ UNCHANGED <<viewMode, globalTodos, deleteConfirmId, nextId, now, status>>
    /\ isDropping' = FALSE                       \* set by the chip's onDragStart (1954), cleared at 719
    /\ dragging' = "none"
    /\ UNCHANGED other
    /\ InBounds'

\* requestDelete 865-869.  The four tests are written without braces, so each
\* `else` belongs to the inner `if` before it:
\*   if (note or sticky) { if (non-blank) hasContent = true;
\*      else if (whiteboard) { if (len > 50) hasContent = true;
\*         else if (todo) { if (owns a task) hasContent = true;
\*            else if (planner) if (len > 50) hasContent = true; } } }
HasContent(item, todos) ==
    IF item.type = "notepad" \/ item.type = "stickynote"
    THEN IF item.content.trimLen > 0 THEN TRUE
         ELSE IF item.type = "whiteboard"
              THEN IF item.content.len > WhiteboardMinLen THEN TRUE
                   ELSE IF item.type = "todo"
                        THEN IF \E k \in 1..Len(todos) : todos[k].originModuleId = item.i
                             THEN TRUE
                             ELSE item.type = "planner" /\ item.content.len > WhiteboardMinLen
                        ELSE FALSE
              ELSE FALSE
    ELSE FALSE

\* performDelete (875-891)
PerformDelete(id) ==
    LET otherMode == OtherMode(viewMode)
        items1 == Without(items, id)
        store1 == [store EXCEPT ![otherMode] =
                      [items |-> Without(store[otherMode].items, id),
                       minimized |-> Without(store[otherMode].minimized, id)]]
    IN /\ items' = items1
       /\ globalTodos' = SelectSeq(globalTodos, LAMBDA t : t.originModuleId # id)
       /\ store' = Persist(viewMode, items1, minimizedItems, store1)
       /\ deleteConfirmId' = NoId
       /\ UNCHANGED <<viewMode, minimizedItems, nextId, now, status>>

\* requestDelete (862-873): the close button of an active module
RequestDelete(id) ==
    /\ Called
    /\ IF ~HasId(items, id)
       THEN UNCHANGED prog                       \* if (!item) return
       ELSE IF HasContent(Find(items, id), globalTodos)
       THEN /\ deleteConfirmId' = id
            /\ UNCHANGED <<viewMode, items, minimizedItems, store, globalTodos, nextId, now, status>>
       ELSE PerformDelete(id)
    /\ UNCHANGED aux
    /\ InBounds'

\* the modal's Delete button (1459) and its Cancel button / overlay (1452, 1458)
ConfirmDelete ==
    /\ Called
    /\ deleteConfirmId # NoId
    /\ PerformDelete(deleteConfirmId)
    /\ UNCHANGED aux
    /\ InBounds'

CancelDelete ==
    /\ Called
    /\ deleteConfirmId # NoId
    /\ deleteConfirmId' = NoId
    /\ UNCHANGED <<viewMode, items, minimizedItems, store, globalTodos, nextId, now, status>>
    /\ UNCHANGED aux
    /\ InBounds'

\* updateContent (893-910) with a patch of shared properties
ApplyPatch(m, data) ==
    [m EXCEPT !.title = IF data.hasTitle THEN data.title ELSE @,
              !.content = IF data.hasContent THEN data.content ELSE @,
              !.themeIndex = IF data.hasTheme THEN data.themeIndex ELSE @]
PatchList(list, id, data) ==
    [k \in 1..Len(list) |-> IF list[k].i = id THEN ApplyPatch(list[k], data) ELSE list[k]]

NoPatch == [hasTitle |-> FALSE, title |-> "", hasContent |-> FALSE,
            content |-> EmptyContent, hasTheme |-> FALSE, themeIndex |-> 0]
Patches == {[NoPatch EXCEPT !.hasTitle = TRUE, !.title = "Bar"],
            [NoPatch EXCEPT !.hasContent = TRUE, !.content = ShortContent],
            [NoPatch EXCEPT !.hasContent = TRUE, !.content = LongContent],
            [NoPatch EXCEPT !.hasTheme = TRUE, !.themeIndex = 3]}

\* Variant: the other view's minimized records are not patched
UpdateContent_NoMinimizedMirror(id, data) ==
    /\ Called
    /\ LET otherMode == OtherMode(viewMode)
           items1 == PatchList(items, id, data)
           mins1  == IF HasId(minimizedItems, id) THEN PatchList(minimizedItems, id, data)
                     ELSE minimizedItems
           store1 == [store EXCEPT ![otherMode].items =
                         PatchList(store[otherMode].items, id, data)]
       IN /\ items' = items1
          /\ minimizedItems' = mins1
          /\ store' = Persist(viewMode, items1, mins1, store1)
          /\ UNCHANGED <<viewMode, globalTodos, deleteConfirmId, nextId, now, status>>
    /\ UNCHANGED aux
    /\ InBounds'

UpdateContent(id, data) ==
    /\ Called
    /\ LET otherMode == OtherMode(viewMode)
           items1 == PatchList(items, id, data)
           mins1  == IF HasId(minimizedItems, id) THEN PatchList(minimizedItems, id, data)
                     ELSE minimizedItems
           store1 == [store EXCEPT ![otherMode] =
                         [items |-> PatchList(store[otherMode].items, id, data),
                          minimized |-> PatchList(store[otherMode].minimized, id, data)]]
       IN /\ items' = items1
          /\ minimizedItems' = mins1
          /\ store' = Persist(viewMode, items1, mins1, store1)
          /\ UNCHANGED <<viewMode, globalTodos, deleteConfirmId, nextId, now, status>>
    /\ UNCHANGED aux
    /\ InBounds'

\* toggleViewMode (577-639)
ToggleViewMode ==
    /\ Called
    /\ LET newMode == OtherMode(viewMode)
           saved   == Persist(viewMode, items, minimizedItems, store)
           newItems == saved[newMode].items
           newMinimizedItems == saved[newMode].minimized
           items1  == ToggledItems(newMode, items, newItems)
       IN /\ items' = items1
          /\ minimizedItems' = newMinimizedItems
          /\ viewMode' = newMode
          /\ store' = Persist(newMode, items1, newMinimizedItems, saved)
          /\ UNCHANGED <<globalTodos, deleteConfirmId, nextId, now, status>>
    /\ UNCHANGED aux
    /\ InBounds'

\* handleDragStartStructured (1362-1365): a drag of module `id` begins in the
\* sortable row; the pointer is over the module itself
HandleDragStartStructured(id) ==
    /\ Called
    /\ SortableEnabled
    /\ activeId = NoId
    /\ HasId(items, id)
    /\ activeId' = id
    /\ overId' = id
    /\ UNCHANGED prog
    /\ UNCHANGED <<draggedItemId, imageStore, globalEvents, isDropping, dragging, deleting>>
    /\ InBounds'

\* Variant: a pointer move commits the order it previews
DragMoveStructured_Commits(over) ==
    /\ Called
    /\ SortableEnabled
    /\ activeId # NoId
    /\ over = NoId \/ HasId(items, over)
    /\ overId' = over
    /\ IF over # NoId /\ over # activeId /\ HasId(items, activeId)
       THEN LET sortedItems == getSortedItems(items)
                updated == Reindex(arrayMove(sortedItems, FindIdx(sortedItems, activeId),
                                             FindIdx(sortedItems, over)))
            IN /\ items' = updated
               /\ store' = Persist(viewMode, updated, minimizedItems, store)
       ELSE UNCHANGED <<items, store>>
    /\ UNCHANGED <<viewMode, minimizedItems, globalTodos, deleteConfirmId, nextId, now, status>>
    /\ UNCHANGED <<draggedItemId, activeId, imageStore, globalEvents, isDropping, dragging, deleting>>
    /\ InBounds'
\* A pointer move during a drag in the sortable row.  The DndContext is given
\* onDragStart and onDragEnd only (1860-1865): @dnd-kit moves the overlay and
\* its `over` target, and no handler of the Workspace runs.
DragMoveStructured(over) ==
    /\ Called
    /\ SortableEnabled
    /\ activeId # NoId
    /\ over = NoId \/ HasId(items, over)
    /\ overId' = over
    /\ UNCHANGED prog
    /\ UNCHANGED <<draggedItemId, activeId, imageStore, globalEvents, isDropping, dragging, deleting>>
    /\ InBounds'

\* handleDragEndStructured (1367-1386): the drag of `active` ends over `over`
\* (NoId: over nothing)
HandleDragEndStructured(active, over) ==
    /\ Called
    /\ SortableEnabled
    /\ HasId(items, active)
    /\ over = NoId \/ HasId(items, over)
    /\ IF over # NoId /\ active # over
       THEN LET sortedItems == getSortedItems(items)
                oldIndex == FindIdx(sortedItems, active)
                newIndex == FindIdx(sortedItems, over)
                updated == Reindex(arrayMove(sortedItems, oldIndex, newIndex))
            IN /\ items' = updated
               /\ store' = Persist(viewMode, updated, minimizedItems, store)
       ELSE UNCHANGED <<items, store>>
    /\ activeId' = NoId
    /\ overId' = NoId
    /\ UNCHANGED <<viewMode, minimizedItems, globalTodos, deleteConfirmId, nextId, now, status>>
    /\ UNCHANGED <<draggedItemId, imageStore, globalEvents, isDropping, dragging, deleting>>
    /\ InBounds'

\* The grid's drag handlers.  ReactGridLayout is rendered in free view only
\* (1685-1727), so these run while viewMode is 'free'.
\* items sorted by x: [...].sort((a, b) => a.x - b.x), stable
RECURSIVE InsertByX(_, _)
InsertByX(sorted, m) ==
    IF sorted = <<>> THEN <<m>>
    ELSE IF Head(sorted).x <= m.x
         THEN <<Head(sorted)>> \o InsertByX(Tail(sorted), m)
         ELSE <<m>> \o sorted
RECURSIVE SortByX(_)
SortByX(list) ==
    IF list = <<>> THEN <<>>
    ELSE InsertByX(SortByX(SubSeq(list, 1, Len(list) - 1)), list[Len(list)])
\* Math.round(x / 16) for x >= 0
RoundCol(x) == (2 * x + ColumnWidth) \div (2 * ColumnWidth)
\* Math.max(0, Math.min(Math.round(draggedX / 16), currentOrder.length))
InsertionIndex(draggedX, count) ==
    IF RoundCol(draggedX) > count THEN count ELSE RoundCol(draggedX)
Column(item, x) == [item EXCEPT !.x = x, !.y = 0, !.w = ColumnWidth, !.h = MaxRows]
\* the list built by handleDrag (1253-1300; shownX = draggedX) and by
\* handleDragStop (1308-1354; shownX = insertionIndex * 16)
DragReordered(list, draggedId, insertionIndex, shownX) ==
    LET currentOrder == SortByX(SelectSeq(list, LAMBDA m : m.i # draggedId))
        placed == [k \in 1..Len(currentOrder) |->
                      Column(currentOrder[k],
                             IF k <= insertionIndex THEN (k - 1) * ColumnWidth
                             ELSE k * ColumnWidth)]
        dragged == IF HasId(list, draggedId)
                   THEN <<Column(Find(list, draggedId), shownX)>> ELSE <<>>
    IN SubSeq(placed, 1, insertionIndex) \o dragged
          \o SubSeq(placed, insertionIndex + 1, Len(placed))

\* handleDragStart (1236-1241)
HandleDragStart(id) ==
    /\ Called
    /\ DropEnabled
    /\ HasId(items, id)
    /\ IF viewMode = "structured"
       THEN draggedItemId' = id
       ELSE UNCHANGED draggedItemId
    /\ UNCHANGED prog
    /\ UNCHANGED <<activeId, overId, imageStore, globalEvents, isDropping, dragging, deleting>>
    /\ InBounds'

\* handleDrag (1243-1303): a pointer move that leaves module `id` at x
HandleDrag(id, draggedX) ==
    /\ Called
    /\ DropEnabled
    /\ HasId(items, id)
    /\ IF viewMode = "structured" /\ draggedItemId # NoId /\ id = draggedItemId
       THEN LET others == Len(SelectSeq(items, LAMBDA m : m.i # draggedItemId))
                reorderedItems ==
                    DragReordered(items, draggedItemId,
                                  InsertionIndex(draggedX, others), draggedX)
            IN /\ items' = reorderedItems
               /\ store' = Persist(viewMode, reorderedItems, minimizedItems, store)
       ELSE UNCHANGED <<items, store>>
    /\ UNCHANGED <<viewMode, minimizedItems, globalTodos, deleteConfirmId, nextId, now, status>>
    /\ UNCHANGED aux
    /\ InBounds'

\* handleDragStop (1305-1359)
HandleDragStop(id, draggedX) ==
    /\ Called
    /\ DropEnabled
    /\ HasId(items, id)
    /\ IF viewMode = "structured" /\ draggedItemId # NoId
       THEN LET others == Len(SelectSeq(items, LAMBDA m : m.i # draggedItemId))
                insertionIndex == InsertionIndex(draggedX, others)
                reorderedItems ==
                    DragReordered(items, draggedItemId, insertionIndex,
                                  insertionIndex * ColumnWidth)
            IN /\ items' = reorderedItems
               /\ store' = Persist(viewMode, reorderedItems, minimizedItems, store)
               /\ draggedItemId' = NoId
       ELSE UNCHANGED <<items, store, draggedItemId>>
    /\ UNCHANGED <<viewMode, minimizedItems, globalTodos, deleteConfirmId, nextId, now, status>>
    /\ UNCHANGED <<activeId, overId, imageStore, globalEvents, isDropping, dragging, deleting>>
    /\ InBounds'


\* --------------------------------------------------------- task operations
\* A task: [id, done, originModuleId, parentId]; parentId = NoId is undefined.
TodoIds(todos) == {todos[k].id : k \in 1..Len(todos)}
HasTodo(todos, id) == \E k \in 1..Len(todos) : todos[k].id = id
\* todos.findIndex(t => t.id === id) / todos.find(...): the first match
TodoIdx(todos, id) == CHOOSE k \in 1..Len(todos) :
                         todos[k].id = id /\ \A j \in 1..(k - 1) : todos[j].id # id
FindTodo(todos, id) == todos[TodoIdx(todos, id)]

\* allItems.filter(i => i.parentId === rootId).map(c => c.id)
ChildIds(todos, rootId) == {todos[k].id : k \in {j \in 1..Len(todos) : todos[j].parentId = rootId}}

\* getDescendants(rootId, allItems) as a set of ids; n bounds the depth walked
RECURSIVE DescendantsUpTo(_, _, _)
DescendantsUpTo(todos, S, n) ==
    LET next == S \cup UNION {ChildIds(todos, d) : d \in S}
    IN IF n = 0 \/ next = S THEN S ELSE DescendantsUpTo(todos, next, n - 1)
getDescendants(rootId, todos) == DescendantsUpTo(todos, ChildIds(todos, rootId), Len(todos))

\* The recursive walks markChildren (970-976) and getDescendants (1004-1007,
\* 1044-1047) carry no visited set: they return only if no task they reach
\* lies on a parentId cycle.
WalkDiverges(todos, rootId) ==
    \E d \in getDescendants(rootId, todos) \cup {rootId} : d \in getDescendants(d, todos)

\* addTodo (949-959).  The id is Date.now().toString(): the clock reads t, at
\* or after its previous reading.
AddTodo(moduleId, parentId, t) ==
    /\ Called
    /\ Len(globalTodos) < MaxTodos
    /\ globalTodos' = Append(globalTodos,
           [id |-> t, done |-> FALSE, originModuleId |-> moduleId, parentId |-> parentId,
            images |-> <<>>,
            linkedEventId |-> NoId])
    /\ now' = t
    /\ UNCHANGED <<viewMode, items, minimizedItems, store, deleteConfirmId, nextId, status>>
    /\ UNCHANGED aux
    /\ InBounds'

\* updateItem (966-969): patches the first task with that id, if any
SetDone(todos, itemId, v) ==
    IF HasTodo(todos, itemId)
    THEN [todos EXCEPT ![TodoIdx(todos, itemId)].done = v]
    ELSE todos
RECURSIVE SetDoneAll(_, _, _)
SetDoneAll(todos, S, v) ==
    IF S = {} THEN todos
    ELSE LET d == CHOOSE e \in S : TRUE
         IN SetDoneAll(SetDone(todos, d, v), S \ {d}, v)

\* updateTodo 980-985: the walk up after un-completing.  The result is
\* [hung, todos]; hung when the while loop runs more steps than there are
\* tasks, which only a parentId cycle makes possible.
RECURSIVE ClearAncestors(_, _, _)
ClearAncestors(todos, currId, fuel) ==
    IF ~HasTodo(todos, currId) THEN [hung |-> FALSE, todos |-> todos]
    ELSE LET curr == FindTodo(todos, currId)
         IN IF curr.parentId = NoId THEN [hung |-> FALSE, todos |-> todos]
            ELSE IF fuel = 0 THEN [hung |-> TRUE, todos |-> todos]
            ELSE ClearAncestors(SetDone(todos, curr.parentId, FALSE), curr.parentId, fuel - 1)

\* updateTodo 986-995: the walk up after completing
RECURSIVE CompleteAncestors(_, _, _)
CompleteAncestors(todos, currId, fuel) ==
    IF ~HasTodo(todos, currId) THEN [hung |-> FALSE, todos |-> todos]
    ELSE LET curr == FindTodo(todos, currId)
         IN IF curr.parentId = NoId THEN [hung |-> FALSE, todos |-> todos]
            ELSE IF \A k \in 1..Len(todos) :
                        todos[k].parentId = curr.parentId => todos[k].done
                 THEN IF fuel = 0 THEN [hung |-> TRUE, todos |-> todos]
                      ELSE CompleteAncestors(SetDone(todos, curr.parentId, TRUE),
                                             curr.parentId, fuel - 1)
                 ELSE [hung |-> FALSE, todos |-> todos]

\* The state updater of updateTodo(id, {done: newStatus}) (964-997)
UpdateDone(todos, id, newStatus) ==
    LET marked == SetDoneAll(todos, {id} \cup getDescendants(id, todos), newStatus)
    IN IF newStatus THEN CompleteAncestors(marked, id, Len(todos))
       ELSE ClearAncestors(marked, id, Len(todos))

\* updateTodo (961-1001) with a `done` update.  An updater that overflows the
\* stack throws while React renders and unmounts the application; one that
\* loops forever freezes it.
UpdateTodo(id, newStatus) ==
    /\ Called
    /\ IF WalkDiverges(globalTodos, id)
       THEN status' = "crashed" /\ UNCHANGED globalTodos
       ELSE LET r == UpdateDone(globalTodos, id, newStatus)
            IN IF r.hung
               THEN status' = "hung" /\ UNCHANGED globalTodos
               ELSE globalTodos' = r.todos /\ UNCHANGED status
    /\ UNCHANGED <<viewMode, items, minimizedItems, store, deleteConfirmId, nextId, now>>
    /\ UNCHANGED aux
    /\ InBounds'

\* deleteTodo (1003-1040), run without another handler between its awaits.
\* The attachments of the task (1010-1019) and then of its descendants
\* (1022-1034) are removed from the image store; getDescendants(id,
\* globalTodos) at 1022 runs after the task's own attachments are removed and
\* before the state update: if it overflows the stack the promise is rejected
\* and no task is removed.
\* Variant: only the task and its direct children are removed
DeleteClosure_ChildrenOnly(todos, id) ==
    LET toDelete == {id} \cup ChildIds(todos, id)
    IN SelectSeq(todos, LAMBDA t : t.id \notin toDelete)
DeleteClosure(todos, id) ==
    LET toDelete == {id} \cup getDescendants(id, todos)
    IN SelectSeq(todos, LAMBDA t : t.id \notin toDelete)

\* img.path of the images of a task
ImagePaths(todo) == {todo.images[k].path : k \in 1..Len(todo.images)}
\* globalTodos.find(t => t.id === id)?.images (1010-1011, 1024-1025)
ImagesOfId(todos, id) == IF HasTodo(todos, id) THEN ImagePaths(FindTodo(todos, id)) ELSE {}
DescendantImages(todos, id) == UNION {ImagesOfId(todos, d) : d \in getDescendants(id, todos)}
\* removeImage (imageUtils.ts 202-219) called for each path inside try/catch
\* (1013-1017, 1027-1031): a file that exists is unlinked unless unlinkSync
\* throws, which is logged; `failing` are the paths for which it throws
RemoveImages(files, paths, failing) == files \ (paths \ failing)

\* Variant: a removeImage that throws ends deleteTodo before the state update
TodosAfterDelete_Aborting(todos, id, failing) ==
    IF failing # {} THEN todos ELSE DeleteClosure(todos, id)
\* the state update (1036-1039) is reached whatever removeImage did: each
\* call is wrapped in try/catch (1013-1017, 1027-1031)
TodosAfterDelete(todos, id, failing) == DeleteClosure(todos, id)

DeleteTodo(id) ==
    /\ Called
    /\ LET own == ImagesOfId(globalTodos, id)
       IN IF WalkDiverges(globalTodos, id)
          THEN /\ \E failing \in SUBSET (own \cap imageFiles) :
                    imageFiles' = RemoveImages(imageFiles, own, failing)
               /\ UNCHANGED globalTodos
          ELSE LET paths == own \cup DescendantImages(globalTodos, id)
               IN \E failing \in SUBSET (paths \cap imageFiles) :
                     /\ imageFiles' = RemoveImages(imageFiles, paths, failing)
                     /\ globalTodos' = TodosAfterDelete(globalTodos, id, failing)
    /\ UNCHANGED <<viewMode, items, minimizedItems, store, deleteConfirmId, nextId, now, status,
                   nextImage>>
    /\ UNCHANGED <<drag, globalEvents, isDropping, dragging, deleting>>
    /\ InBounds'

\* handleAddImage (1098-1149).  The dialog returns no path ("cancel"),
\* copyImage throws ("fail": alert, nothing is stored) or the file is copied
\* into the image store ("ok") and the image is appended to the task's images,
\* the first image of a task as its cover.  The updater keeps the collection
\* when the task is not found (1124-1128): the copied file stays.
AddOutcomes == {"cancel", "fail", "ok"}
\* Variant: every image added is marked as the cover
WithImage_AlwaysCover(prev, todoId, path) ==
    IF ~HasTodo(prev, todoId) THEN prev
    ELSE LET images == FindTodo(prev, todoId).images
             newImage == [id |-> path, path |-> path, isCover |-> TRUE]
         IN [k \in 1..Len(prev) |->
                IF prev[k].id = todoId
                THEN [prev[k] EXCEPT !.images = Append(images, newImage)]
                ELSE prev[k]]
WithImage(prev, todoId, path) ==
    IF ~HasTodo(prev, todoId) THEN prev
    ELSE LET images == FindTodo(prev, todoId).images
             newImage == [id |-> path, path |-> path, isCover |-> (Len(images) = 0)]
         IN [k \in 1..Len(prev) |->
                IF prev[k].id = todoId
                THEN [prev[k] EXCEPT !.images = Append(images, newImage)]
                ELSE prev[k]]
HandleAddImage(todoId, outcome) ==
    /\ Called
    /\ nextImage <= MaxImages
    /\ IF outcome = "ok"
       THEN /\ imageFiles' = imageFiles \cup {nextImage}
            /\ nextImage' = nextImage + 1
            /\ globalTodos' = WithImage(globalTodos, todoId, nextImage)
       ELSE UNCHANGED <<imageFiles, nextImage, globalTodos>>
    /\ UNCHANGED <<viewMode, items, minimizedItems, store, deleteConfirmId, nextId, now, status>>
    /\ UNCHANGED <<drag, globalEvents, isDropping, dragging, deleting>>
    /\ InBounds'

\* The state updater of handleRemoveImage (1155-1171): the image is filtered
\* out of the images of the first task with the id, and when it was the cover
\* the first image left becomes the cover
HasImage(images, imageId) == \E k \in 1..Len(images) : images[k].id = imageId
FindImage(images, imageId) ==
    images[CHOOSE k \in 1..Len(images) :
              images[k].id = imageId /\ \A j \in 1..(k - 1) : images[j].id # imageId]
WithoutImage(prev, todoId, imageId) ==
    IF ~HasTodo(prev, todoId) THEN prev
    ELSE LET old == FindTodo(prev, todoId).images
             left == SelectSeq(old, LAMBDA img : img.id # imageId)
             removedWasCover == HasImage(old, imageId) /\ FindImage(old, imageId).isCover
             images == IF removedWasCover /\ Len(left) > 0
                       THEN [left EXCEPT ![1].isCover = TRUE]
                       ELSE left
         IN [k \in 1..Len(prev) |->
                IF prev[k].id = todoId
                THEN [prev[k] EXCEPT !.images = images]
                ELSE prev[k]]
\* handleRemoveImage (1151-1178), called by the edit dialog with the id and
\* the path of an image it shows (1603).  removeImage unlinks the file if it
\* exists; when it throws the catch block reports it and the task keeps the
\* image.
HandleRemoveImage(todoId, imageId, throws) ==
    /\ Called
    /\ throws => imageId \in imageFiles
    /\ IF throws
       THEN UNCHANGED <<imageFiles, globalTodos>>
       ELSE /\ imageFiles' = imageFiles \ {imageId}
            /\ globalTodos' = WithoutImage(globalTodos, todoId, imageId)
    /\ UNCHANGED <<viewMode, items, minimizedItems, store, deleteConfirmId, nextId, now, status,
                   nextImage>>
    /\ UNCHANGED <<drag, globalEvents, isDropping, dragging, deleting>>
    /\ InBounds'

\* handleSetCoverImage (1180-1195)
WithCover(prev, todoId, imageId) ==
    IF ~HasTodo(prev, todoId) THEN prev
    ELSE LET old == FindTodo(prev, todoId).images
             images == [k \in 1..Len(old) |-> [old[k] EXCEPT !.isCover = (old[k].id = imageId)]]
         IN [k \in 1..Len(prev) |->
                IF prev[k].id = todoId
                THEN [prev[k] EXCEPT !.images = images]
                ELSE prev[k]]
HandleSetCoverImage(todoId, imageId) ==
    /\ Called
    /\ globalTodos' = WithCover(globalTodos, todoId, imageId)
    /\ UNCHANGED <<viewMode, items, minimizedItems, store, deleteConfirmId, nextId, now, status>>
    /\ UNCHANGED aux
    /\ InBounds'

\* moveTodo (1042-1065)
\* Variant: the descendants are left in the module they were in
MoveClosure_TaskOnly(todos, itemId, targetModuleId) ==
    [k \in 1..Len(todos) |->
          IF todos[k].id = itemId
          THEN [todos[k] EXCEPT
                  !.originModuleId = targetModuleId,
                  !.parentId = IF todos[k].originModuleId # targetModuleId
                               THEN NoId ELSE @]
          ELSE todos[k]]
MoveClosure(todos, itemId, targetModuleId) ==
    LET idsToMove == {itemId} \cup getDescendants(itemId, todos)
    IN [k \in 1..Len(todos) |->
          IF todos[k].id \in idsToMove
          THEN [todos[k] EXCEPT
                  !.originModuleId = targetModuleId,
                  !.parentId = IF todos[k].id = itemId
                                  /\ todos[k].originModuleId # targetModuleId
                               THEN NoId ELSE @]
          ELSE todos[k]]

MoveTodo(itemId, targetModuleId) ==
    /\ Called
    /\ IF WalkDiverges(globalTodos, itemId)
       THEN status' = "crashed" /\ UNCHANGED globalTodos
       ELSE globalTodos' = MoveClosure(globalTodos, itemId, targetModuleId) /\ UNCHANGED status
    /\ UNCHANGED <<viewMode, items, minimizedItems, store, deleteConfirmId, nextId, now>>
    /\ UNCHANGED aux
    /\ InBounds'

\* reorderTodo (1067-1095); targetId = NoId is null
Reordered(prev, draggedId, targetId, position, moduleId) ==
    IF ~HasTodo(prev, draggedId) THEN prev
    ELSE LET draggedItem == FindTodo(prev, draggedId)
             newTodos == SelectSeq(prev, LAMBDA t : t.id # draggedId)
             updatedItem == [draggedItem EXCEPT !.originModuleId = moduleId]
         IN IF targetId # NoId /\ HasTodo(newTodos, targetId)
            THEN LET targetIndex == TodoIdx(newTodos, targetId)
                     targetItem == FindTodo(prev, targetId)
                     placed == [updatedItem EXCEPT
                                  !.parentId = IF position = "inside" THEN targetId
                                               ELSE targetItem.parentId]
                     insertIndex == IF position = "after" THEN targetIndex + 1
                                    ELSE targetIndex
                 IN SubSeq(newTodos, 1, insertIndex - 1) \o <<placed>>
                      \o SubSeq(newTodos, insertIndex, Len(newTodos))
            ELSE Append(newTodos, [updatedItem EXCEPT !.parentId = NoId])

ReorderTodo(draggedId, targetId, position, moduleId) ==
    /\ Called
    /\ globalTodos' = Reordered(globalTodos, draggedId, targetId, position, moduleId)
    /\ UNCHANGED <<viewMode, items, minimizedItems, store, deleteConfirmId, nextId, now, status>>
    /\ UNCHANGED aux
    /\ InBounds'


\* ------------------------------------------------------------ next states
ModuleIds == 1..MaxModules
Positions == {"before", "after", "inside"}
\* the task lists on screen: active modules of type todo
TodoModuleIds == {items[k].i : k \in {j \in 1..Len(items) : items[j].type = "todo"}}
\* getVisibleTodos (1399)
VisibleTodoIds(moduleId) ==
    {globalTodos[k].id : k \in {j \in 1..Len(globalTodos) :
                                   globalTodos[j].originModuleId = moduleId}}
ClockReadings == {t \in {now, now + 1} : t <= MaxClock}

\* ------------------------------------------------------ the task list view
\* getVisibleTodos (workspace.tsx 1399): the `items` prop of a module's TodoList
getVisibleTodos(moduleId) ==
    SelectSeq(globalTodos, LAMBDA t : t.originModuleId = moduleId)

\* todolist.tsx 346: items.filter(i => !i.parentId)
rootItems(list) == SelectSeq(list, LAMBDA i : i.parentId = NoId)

\* renderTodoItem (todolist.tsx 238-342): the item, then its children
\* (items.filter(i => i.parentId === item.id), 239) each rendered by the same
\* function (339).  `ids` lists the ids of the rows in the order they are
\* emitted.  The recursion carries no visited set; `fuel` is the depth left
\* before the call stack overflows, and a walk deeper than the list is long
\* has met some task twice and never ends.
RECURSIVE renderTodoItem(_, _, _)
RECURSIVE renderEach(_, _, _)
renderEach(list, its, fuel) ==
    IF its = <<>> THEN [overflow |-> FALSE, ids |-> <<>>]
    ELSE LET first == renderTodoItem(list, Head(its), fuel)
             rest  == renderEach(list, Tail(its), fuel)
         IN [overflow |-> first.overflow \/ rest.overflow, ids |-> first.ids \o rest.ids]
renderTodoItem(list, item, fuel) ==
    IF fuel = 0 THEN [overflow |-> TRUE, ids |-> <<>>]
    ELSE LET children == SelectSeq(list, LAMBDA i : i.parentId = item.id)
             below == renderEach(list, children, fuel - 1)
         IN [overflow |-> below.overflow, ids |-> <<item.id>> \o below.ids]

\* the list body (todolist.tsx 357): rootItems.map(item => renderTodoItem(item))
TodoListView(list) == renderEach(list, rootItems(list), Len(list) + 1)
\* the ids of the rows rendered at the top level of the list
RootRowIds(list) == TodoIds(rootItems(list))

\* The module lifecycle: every kind of module, dropped on every cell
LayoutNext ==
    \/ \E type \in ModuleTypes, cell \in DropCells : OnDropCreate(type, cell)
    \/ \E id \in ModuleIds : MinimizeModule(id)
    \/ \E id \in ModuleIds : RestoreModule(id)
    \/ \E id \in ModuleIds, cell \in DropCells : OnDropRestore(id, cell)
    \/ \E id \in ModuleIds : RequestDelete(id)
    \/ ToggleViewMode
    \/ \E active \in ModuleIds, over \in ModuleIds : HandleDragEndStructured(active, over)

\* The lifecycle of modules that carry content, with edits of the shared
\* properties and the delete confirmation they lead to
ContentTypes == {"notepad", "whiteboard"}
ContentNext ==
    \/ \E type \in ContentTypes : OnDropCreate(type, <<2, 3>>)
    \/ \E id \in ModuleIds, data \in Patches : UpdateContent(id, data)
    \/ \E id \in ModuleIds : MinimizeModule(id)
    \/ \E id \in ModuleIds : RestoreModule(id)
    \/ \E id \in ModuleIds : RequestDelete(id)
    \/ ConfirmDelete
    \/ CancelDelete
    \/ ToggleViewMode

\* Task lists (todo modules are dropped and deleted) and the task operations.
\* The handlers take any id: the ids of the tasks and ids no task has.
TaskIds == 1..MaxClock
TodoNext ==
    \/ OnDropCreate("todo", <<2, 3>>)
    \/ \E id \in ModuleIds : RequestDelete(id)
    \/ \E m \in TodoModuleIds : \E p \in {NoId} \cup VisibleTodoIds(m), t \in ClockReadings :
          AddTodo(m, p, t)
    \/ \E id \in TaskIds, v \in BOOLEAN : UpdateTodo(id, v)
    \/ \E id \in TaskIds : DeleteTodo(id)
    \/ \E id \in TaskIds, m \in TodoModuleIds : MoveTodo(id, m)
    \/ \E d \in TaskIds, t \in TaskIds \cup {NoId},
          pos \in Positions, m \in TodoModuleIds : ReorderTodo(d, t, pos, m)

Next == LayoutNext \/ ContentNext \/ TodoNext

Spec == Init /\ [][LayoutNext]_vars

\* The module lifecycle with the reorder of the structured row: notes and
\* task lists dropped on one cell, minimized, restored, deleted and dragged
ReorderNext ==
    \/ \E type \in {"notepad", "todo"} : OnDropCreate(type, <<2, 3>>)
    \/ \E id \in ModuleIds : MinimizeModule(id)
    \/ \E id \in ModuleIds : RestoreModule(id)
    \/ \E id \in ModuleIds : RequestDelete(id)
    \/ ToggleViewMode
    \/ \E active \in ModuleIds, over \in ModuleIds : HandleDragEndStructured(active, over)
SpecReorder == Init /\ [][ReorderNext]_vars
SpecContent == Init /\ [][ContentNext]_vars
SpecTodos == Init /\ [][TodoNext]_vars

\* Task lists with attachments: the task edit dialog calls handleAddImage
\* for the task it edits (workspace.tsx 1506)
ImageIds == 1..MaxImages
ImageNext ==
    \/ OnDropCreate("todo", <<2, 3>>)
    \/ \E id \in ModuleIds : RequestDelete(id)
    \/ \E m \in TodoModuleIds : \E p \in {NoId} \cup VisibleTodoIds(m), t \in ClockReadings : AddTodo(m, p, t)
    \/ \E id \in TodoIds(globalTodos), outcome \in AddOutcomes : HandleAddImage(id, outcome)
    \/ \E id \in TaskIds : DeleteTodo(id)
    \/ \E id \in TaskIds, img \in ImageIds, throws \in BOOLEAN : HandleRemoveImage(id, img, throws)
    \/ \E id \in TaskIds, img \in ImageIds : HandleSetCoverImage(id, img)
SpecImages == Init /\ [][ImageNext]_vars

\* ------------------------------------------------- failing storage writes
\* localStorage.setItem throws when the quota is exceeded.  None of the
\* handlers catches it: a handler whose `at`-th write to the other view's
\* records throws ends there.  The state updates it has already queued are
\* applied by React, and the persistence effects (403-409) write the current
\* view's records.
WriteFailures == {1, 2}

\* onDrop, creation path, when the write of the other view's list (778) throws
OnDropCreateThrows(type, cell) ==
    /\ Called
    /\ DropEnabled
    /\ nextId <= MaxModules
    /\ ~(type = "clock" /\ \E k \in 1..Len(items) : items[k].type = "clock")
    /\ ~HasId(store[OtherMode(viewMode)].items, nextId)
    /\ LET newItem == NewItem(nextId, type, cell)
           items1  == IF HasId(items, nextId) THEN items ELSE Append(items, newItem)
       IN /\ items' = items1
          /\ store' = Persist(viewMode, items1, minimizedItems, store)
          /\ nextId' = nextId + 1
    /\ isDropping' = TRUE                        \* set by onDragStart (645); 781 is not reached
    /\ dragging' = "none"
    /\ UNCHANGED <<viewMode, minimizedItems, globalTodos, deleteConfirmId, now, status>>
    /\ UNCHANGED other
    /\ InBounds'

\* the other view's records when the restore mirror (832-859, 690-717) stops
\* at its `at`-th write: the list is written (857), the minimized list is not (858)
RestoreOtherThrows(st, otherMode, id, at) ==
    IF at = 1 THEN st
    ELSE [st EXCEPT ![otherMode].items = RestoreOther(st, otherMode, id)[otherMode].items]

\* restoreModule(id) when a write of its mirror throws
RestoreModuleThrows(id, at) ==
    /\ Called
    /\ HasId(minimizedItems, id)
    /\ ~(viewMode = "structured" /\ HasId(items, id))
    /\ HasId(store[OtherMode(viewMode)].minimized, id)       \* if (otherItem)
    /\ LET item == Find(minimizedItems, id)
           restoredItem ==
               IF viewMode = "structured"
               THEN [item EXCEPT !.orderIndex = NextOrderIndex(items)]
               ELSE [item EXCEPT
                       !.x = PrevOr(item, "x", 0),
                       !.y = PrevOr(item, "y", 0),
                       !.w = PrevOr(item, "w", item.w),
                       !.h = PrevOr(item, "h", item.h)]
           items1 == Append(items, restoredItem)
           mins1  == Without(minimizedItems, id)
       IN /\ items' = items1
          /\ minimizedItems' = mins1
          /\ store' = Persist(viewMode, items1, mins1,
                              RestoreOtherThrows(store, OtherMode(viewMode), id, at))
    /\ UNCHANGED <<viewMode, globalTodos, deleteConfirmId, nextId, now, status>>
    /\ UNCHANGED aux
    /\ InBounds'

\* onDrop, restore path, when a write of its mirror (715, 716) throws
OnDropRestoreThrows(id, cell, at) ==
    /\ Called
    /\ DropEnabled
    /\ HasId(minimizedItems, id)
    /\ HasId(store[OtherMode(viewMode)].minimized, id)
    /\ LET itemToRestore == Find(minimizedItems, id)
           items1 ==
               IF viewMode = "structured"
               THEN IF HasId(items, id) THEN items
                    ELSE Append(items,
                           [itemToRestore EXCEPT !.orderIndex = NextOrderIndex(items)])
               ELSE Append(items,
                      [itemToRestore EXCEPT
                          !.x = cell[1], !.y = cell[2],
                          !.w = PrevOr(itemToRestore, "w", itemToRestore.w),
                          !.h = PrevOr(itemToRestore, "h", itemToRestore.h)])
           mins1 == Without(minimizedItems, id)
       IN /\ items' = items1
          /\ minimizedItems' = mins1
          /\ store' = Persist(viewMode, items1, mins1,
                              RestoreOtherThrows(store, OtherMode(viewMode), id, at))
    /\ isDropping' = TRUE                        \* set at 1954; 719 is not reached
    /\ dragging' = "none"
    /\ UNCHANGED <<viewMode, globalTodos, deleteConfirmId, nextId, now, status>>
    /\ UNCHANGED other
    /\ InBounds'

\* performDelete when its `at`-th write (883, 888) throws: 890 is not reached
PerformDeleteThrows(id, at) ==
    LET otherMode == OtherMode(viewMode)
        items1 == Without(items, id)
        store1 == IF at = 1 THEN store
                  ELSE [store EXCEPT ![otherMode].items = Without(store[otherMode].items, id)]
    IN /\ items' = items1
       /\ globalTodos' = SelectSeq(globalTodos, LAMBDA t : t.originModuleId # id)
       /\ store' = Persist(viewMode, items1, minimizedItems, store1)
       /\ UNCHANGED <<viewMode, minimizedItems, deleteConfirmId, nextId, now, status>>

\* requestDelete of a module without content, performDelete throwing
RequestDeleteThrows(id, at) ==
    /\ Called
    /\ HasId(items, id)
    /\ ~HasContent(Find(items, id), globalTodos)
    /\ PerformDeleteThrows(id, at)
    /\ UNCHANGED aux
    /\ InBounds'

\* the modal's Delete button, performDelete throwing
ConfirmDeleteThrows(at) ==
    /\ Called
    /\ deleteConfirmId # NoId
    /\ PerformDeleteThrows(deleteConfirmId, at)
    /\ UNCHANGED aux
    /\ InBounds'

\* updateContent when its `at`-th write (900, 909) throws: the first comes
\* before setMinimizedItems (905), the second after it
UpdateContentThrows(id, data, at) ==
    /\ Called
    /\ LET otherMode == OtherMode(viewMode)
           items1 == PatchList(items, id, data)
           mins1  == IF at = 2 /\ HasId(minimizedItems, id)
                     THEN PatchList(minimizedItems, id, data)
                     ELSE minimizedItems
           store1 == IF at = 1 THEN store
                     ELSE [store EXCEPT ![otherMode].items =
                              PatchList(store[otherMode].items, id, data)]
       IN /\ items' = items1
          /\ minimizedItems' = mins1
          /\ store' = Persist(viewMode, items1, mins1, store1)
          /\ UNCHANGED <<viewMode, globalTodos, deleteConfirmId, nextId, now, status>>
    /\ UNCHANGED aux
    /\ InBounds'

\* The lifecycle of notes with a storage that may refuse a write
ContentPatch == [NoPatch EXCEPT !.hasContent = TRUE, !.content = ShortContent]
StorageNext ==
    \/ OnDropCreate("notepad", <<2, 3>>)
    \/ OnDropCreateThrows("notepad", <<2, 3>>)
    \/ \E id \in ModuleIds : UpdateContent(id, ContentPatch)
    \/ \E id \in ModuleIds, at \in WriteFailures : UpdateContentThrows(id, ContentPatch, at)
    \/ \E id \in ModuleIds : MinimizeModule(id)
    \/ \E id \in ModuleIds : RestoreModule(id)
    \/ \E id \in ModuleIds, at \in WriteFailures : RestoreModuleThrows(id, at)
    \/ \E id \in ModuleIds : OnDropRestore(id, <<2, 3>>)
    \/ \E id \in ModuleIds, at \in WriteFailures : OnDropRestoreThrows(id, <<2, 3>>, at)
    \/ \E id \in ModuleIds : RequestDelete(id)
    \/ \E id \in ModuleIds, at \in WriteFailures : RequestDeleteThrows(id, at)
    \/ ConfirmDelete
    \/ \E at \in WriteFailures : ConfirmDeleteThrows(at)
    \/ CancelDelete
    \/ ToggleViewMode
SpecStorage == Init /\ [][StorageNext]_vars

\* ------------------------------------------------------------- restart
\* What localStorage.getItem and JSON.parse make of a key when the Workspace
\* mounts: the record the program stored, no record, text that is not JSON,
\* or JSON that is not a list (null, a number, an object).
ReadKeys == {"viewMode", "items", "minimized", "oldItems", "oldMinimized", "todos", "events"}
ListKeys == {"items", "minimized", "oldItems", "oldMinimized"}
AllStored == [k \in ReadKeys |-> "stored"]
Readings ==
    {AllStored, [k \in ReadKeys |-> "absent"], [k \in ReadKeys |-> "garbage"]}
      \cup {[AllStored EXCEPT ![k] = "garbage"] : k \in ReadKeys}
      \cup {[AllStored EXCEPT ![k] = "notalist"] : k \in {"items", "oldMinimized"}}

\* Variant: the JSON.parse of text that is not JSON is not caught
loadState_Uncaught(kind, saved, defaultVal) ==
    [thrown |-> (kind = "garbage"),
     isList |-> kind # "notalist",
     val    |-> IF kind = "stored" THEN saved ELSE defaultVal]
\* loadState (99-105): the parsed record if there is one, the default when
\* getItem returns null or JSON.parse throws.  What parses is returned as it
\* is, a list or not.
loadState(kind, saved, defaultVal) ==
    [thrown |-> FALSE,
     isList |-> kind # "notalist",
     val    |-> IF kind = "stored" THEN saved
                ELSE IF kind = "notalist" THEN <<>> ELSE defaultVal]

\* the initialisers of items and minimizedItems (380-397): the record of the
\* view, or the old record when the view's is empty and the old one is not.
\* `saved.length` of null throws; something else that is no list is taken as
\* the state and the first render throws on it.
InitialList(saved, old) ==
    IF saved.thrown \/ ~saved.isList THEN [failed |-> TRUE, val |-> <<>>]
    ELSE IF Len(saved.val) = 0
         THEN IF old.thrown \/ ~old.isList THEN [failed |-> TRUE, val |-> <<>>]
              ELSE IF Len(old.val) > 0 THEN [failed |-> FALSE, val |-> old.val]
                   ELSE [failed |-> FALSE, val |-> saved.val]
         ELSE [failed |-> FALSE, val |-> saved.val]

\* The Workspace is mounted anew (374-409) with nothing in progress: the
\* state initialisers read the store, and the persistence effects write what
\* they produced.  The effects keep ws_viewMode, ws_todos and ws_events equal
\* to the state, so a stored record read back is the state before the restart.
Startup(kinds) ==
    /\ Called
    /\ activeId = NoId
    /\ LET vm     == loadState(kinds["viewMode"], viewMode, "free")
           its    == InitialList(loadState(kinds["items"], store[vm.val].items, <<>>),
                                 loadState(kinds["oldItems"], store["legacy"].items, <<>>))
           mins   == InitialList(loadState(kinds["minimized"], store[vm.val].minimized, <<>>),
                                 loadState(kinds["oldMinimized"], store["legacy"].minimized, <<>>))
           events == loadState(kinds["events"], globalEvents, <<>>)
           todos  == loadState(kinds["todos"], globalTodos, <<>>)
       IN IF vm.thrown \/ its.failed \/ mins.failed \/ events.thrown \/ todos.thrown
          THEN /\ status' = "crashed"
               /\ UNCHANGED <<viewMode, items, minimizedItems, store, globalTodos,
                              deleteConfirmId, globalEvents, isDropping, dragging,
                              draggedItemId, deleting>>
          ELSE /\ viewMode' = vm.val
               /\ items' = its.val
               /\ minimizedItems' = mins.val
               /\ globalEvents' = events.val
               /\ globalTodos' = todos.val
               /\ store' = Persist(vm.val, its.val, mins.val, store)
               /\ deleteConfirmId' = NoId
               /\ isDropping' = FALSE
               /\ dragging' = "none"
               /\ deleting' = NoDelete
               /\ draggedItemId' = NoId
               /\ UNCHANGED status
    /\ UNCHANGED <<nextId, now, imageStore, activeId, overId>>
    /\ InBounds'

\* The first mount of this version over the store of the earlier one: a
\* notepad in ws_items, nothing under the keys of the views
LegacyItem ==
    [i |-> 1, x |-> 2, y |-> 3, w |-> SpecW("notepad"), h |-> SpecH("notepad"),
     type |-> "notepad", title |-> DefaultTitle("notepad"), content |-> EmptyContent,
     themeIndex |-> 0, prevPos |-> NoPrevPos, orderIndex |-> Absent]
InitUpgraded ==
    /\ viewMode = "free"
    /\ items = <<LegacyItem>>
    /\ minimizedItems = <<>>
    /\ store = [m \in StoreKeys |->
                  IF m = "structured" THEN [items |-> <<>>, minimized |-> <<>>]
                  ELSE [items |-> <<LegacyItem>>, minimized |-> <<>>]]
    /\ globalTodos = <<>>
    /\ deleteConfirmId = NoId
    /\ nextId = 2
    /\ now = 1
    /\ status = "running"
    /\ imageFiles = {}
    /\ nextImage = 1
    /\ draggedItemId = NoId
    /\ activeId = NoId
    /\ overId = NoId
    /\ globalEvents = <<>>
    /\ isDropping = FALSE
    /\ dragging = "none"
    /\ deleting = NoDelete
    /\ steps = 0

ReloadNext ==
    \/ OnDropCreate("todo", <<2, 3>>)
    \/ \E id \in ModuleIds : MinimizeModule(id)
    \/ \E id \in ModuleIds : RequestDelete(id)
    \/ ToggleViewMode
    \/ \E m \in TodoModuleIds : AddTodo(m, NoId, now)
    \/ \E kinds \in Readings : Startup(kinds)
InitReload == Init \/ InitUpgraded
SpecReload == InitReload /\ [][ReloadNext]_vars

\* ------------------------------------------------- events and the auto-check
\* Time is counted in ticks of the clock, DayTicks to the day.  An event has a
\* `date` (an instant) and may have a `startTime` (a time of day).
Instants == 0..MaxClock
DayTimes == 0..(DayTicks - 1)
\* the holidays date-holidays returns do not change while the program runs
holidayEvents == <<[id |-> HolidayId, date |-> DayTicks, startTime |-> NoTime]>>
allEvents == holidayEvents \o globalEvents
EventIds(evs) == {evs[k].id : k \in 1..Len(evs)}
\* events.find(e => e.id === id): the first one with the id
FindEvent(evs, id) == evs[CHOOSE k \in 1..Len(evs) :
                            evs[k].id = id /\ \A j \in 1..(k - 1) : evs[j].id # id]
\* new Date(evt.date), then setHours(h, m) when the event has a startTime
\* (479-483): the same day at that time
evtDate(evt) ==
    IF evt.startTime # NoTime
    THEN (evt.date \div DayTicks) * DayTicks + evt.startTime
    ELSE evt.date
\* Variant: an event counts as past from its very instant
IsPast_AtOrBefore(evt, t) == evtDate(evt) <= t
\* evtDate < now (484)
IsPast(evt, t) == evtDate(evt) < t
\* the callback's map over globalTodos (475-490)
AutoChecked(todos, evs, t) ==
    [k \in 1..Len(todos) |->
        IF todos[k].linkedEventId # NoId /\ ~todos[k].done
              /\ todos[k].linkedEventId \in EventIds(evs)
              /\ IsPast(FindEvent(evs, todos[k].linkedEventId), t)
        THEN [todos[k] EXCEPT !.done = TRUE]
        ELSE todos[k]]

\* The interval callback of the auto-check effect (part_001 470-495).  The
\* effect depends on [globalTodos, allEvents], so the callback that runs sees
\* the current lists; `new Date()` reads the clock at t.  setGlobalTodos is
\* called only if some task was updated.
AutoCheck(t) ==
    /\ Called
    /\ now' = t
    /\ LET updatedTodos == AutoChecked(globalTodos, allEvents, t)
       IN IF updatedTodos # globalTodos
          THEN globalTodos' = updatedTodos
          ELSE UNCHANGED globalTodos
    /\ UNCHANGED <<viewMode, items, minimizedItems, store, deleteConfirmId, nextId, status>>
    /\ UNCHANGED aux
    /\ InBounds'

\* saveEvent (part_001 579): the event modal saves an event whose id is
\* Date.now().toString()
SaveEvent(t, date, startTime) ==
    /\ Called
    /\ Len(globalEvents) < MaxEvents
    /\ now' = t
    /\ globalEvents' = Append(globalEvents, [id |-> t, date |-> date, startTime |-> startTime])
    /\ UNCHANGED <<viewMode, items, minimizedItems, store, globalTodos, deleteConfirmId,
                   nextId, status>>
    /\ UNCHANGED <<imageStore, drag, isDropping, dragging, deleting>>
    /\ InBounds'

\* the events offered for linking: those dated today or later (part_001 465-467)
upcomingEvents ==
    {allEvents[k].id : k \in {j \in 1..Len(allEvents) :
                                allEvents[j].date >= (now \div DayTicks) * DayTicks}}
\* updateTodo(id, {linkedEventId: val}) from the task's event select
\* (todolist.tsx 95): the patch without `done` (workspace.tsx 999)
LinkTodo(id, val) ==
    /\ Called
    /\ globalTodos' = [k \in 1..Len(globalTodos) |->
                          IF globalTodos[k].id = id
                          THEN [globalTodos[k] EXCEPT !.linkedEventId = val]
                          ELSE globalTodos[k]]
    /\ UNCHANGED <<viewMode, items, minimizedItems, store, deleteConfirmId, nextId, now, status>>
    /\ UNCHANGED aux
    /\ InBounds'

\* One task list; the event modal is saved with a date alone or with a date
\* and a start time.
EventInputs == {<<d, NoTime>> : d \in Instants} \cup {<<d, 0>> : d \in {k \in Instants : k % DayTicks = 1}}
SweepNext ==
    \/ items = <<>> /\ OnDropCreate("todo", <<2, 3>>)
    \/ \E m \in TodoModuleIds, t \in ClockReadings : AddTodo(m, NoId, t)
    \/ \E t \in ClockReadings, e \in EventInputs : SaveEvent(t, e[1], e[2])
    \/ \E id \in TodoIds(globalTodos), val \in upcomingEvents \cup {NoId} : LinkTodo(id, val)
    \/ \E id \in TodoIds(globalTodos) : UpdateTodo(id, TRUE)
    \/ \E t \in ClockReadings : AutoCheck(t)
SpecSweep == Init /\ [][SweepNext]_vars

\* Drags.  One pointer: while a module is dragged in the sortable row the
\* other controls are out of reach.  The grid reports the x of the dragged
\* module in grid columns.
DragXs == {0, 9, 40}
DragNext ==
    \/ activeId = NoId /\ \E type \in {"notepad", "todo"} : OnDropCreate(type, <<2, 3>>)
    \/ activeId = NoId /\ ToggleViewMode
    \/ activeId = NoId /\ \E id \in ModuleIds : MinimizeModule(id)
    \/ \E id \in ModuleIds : HandleDragStartStructured(id)
    \/ \E over \in ModuleIds \cup {NoId} : DragMoveStructured(over)
    \/ activeId # NoId /\ HandleDragEndStructured(activeId, overId)
    \/ \E id \in ModuleIds : HandleDragStart(id)
    \/ \E id \in ModuleIds, x \in DragXs : HandleDrag(id, x)
    \/ \E id \in ModuleIds, x \in DragXs : HandleDragStop(id, x)
SpecDrag == Init /\ [][DragNext]_vars


\* ------------------------------------------------------------------ claims
\* The stored records of a view: for the current view the in-memory lists
\* (which the persistence effects keep equal to its stored records)
ActiveOf(mode) == IF mode = viewMode THEN items ELSE store[mode].items
MinimizedOf(mode) == IF mode = viewMode THEN minimizedItems ELSE store[mode].minimized
KnownIds == UNION {Ids(ActiveOf(m)) \cup Ids(MinimizedOf(m)) : m \in Modes}
Rect(m) == [x |-> m.x, y |-> m.y, w |-> m.w, h |-> m.h]

\* C1 (order contiguity): in structured view the orderIndex values of the
\* active modules are exactly 0..n-1, each used once.
C1_OrderContiguity ==
    viewMode = "structured" =>
        /\ \A k \in 1..Len(items) : items[k].orderIndex \in 0..(Len(items) - 1)
        /\ \A j, k \in 1..Len(items) : j # k => items[j].orderIndex # items[k].orderIndex

\* C2 (active/minimized exclusivity): in each view every module that has not
\* been deleted is in exactly one of that view's active and minimized lists.
C2_Exclusive ==
    \A mode \in Modes : \A id \in KnownIds :
        HasId(ActiveOf(mode), id) # HasId(MinimizedOf(mode), id)

\* C3 (acyclic parent graph): no task is reachable from itself by following
\* parentId links.
C3_Acyclic ==
    \A id \in TodoIds(globalTodos) : id \notin getDescendants(id, globalTodos)

\* C4 (no dangling parent): every task with a parentId has a parent task in
\* the global collection.
C4_ParentExists ==
    \A k \in 1..Len(globalTodos) :
        globalTodos[k].parentId # NoId => HasTodo(globalTodos, globalTodos[k].parentId)

\* C5 (deletion guard): requestDelete on an active todo module that owns a
\* task, on a note with non-blank content or on a whiteboard with a payload
\* over the threshold removes nothing and only records the pending
\* confirmation.
NeedsConfirmation(item) ==
    \/ item.type = "todo"
          /\ \E k \in 1..Len(globalTodos) : globalTodos[k].originModuleId = item.i
    \/ item.type \in {"notepad", "stickynote"} /\ item.content.trimLen > 0
    \/ item.type = "whiteboard" /\ item.content.len > WhiteboardMinLen
C5_DeletionGuard ==
    [][\A id \in ModuleIds :
          (HasId(items, id) /\ RequestDelete(id) /\ NeedsConfirmation(Find(items, id)))
             => /\ items' = items
                /\ globalTodos' = globalTodos
                /\ deleteConfirmId' = id]_vars

\* C6 (deleteModule removes everywhere): after performDelete(id) the id is in
\* no active and no minimized list of either view, and no task of it remains.
PerformDeleteStep(id) ==
    \/ HasId(items, id) /\ RequestDelete(id) /\ ~HasContent(Find(items, id), globalTodos)
    \/ ConfirmDelete /\ deleteConfirmId = id
GoneEverywhere(id) ==
    /\ \A mode \in Modes : ~HasId(ActiveOf(mode), id) /\ ~HasId(MinimizedOf(mode), id)
    /\ \A k \in 1..Len(globalTodos) : globalTodos[k].originModuleId # id
C6_DeleteEverywhere ==
    [][\A id \in ModuleIds : PerformDeleteStep(id) => GoneEverywhere(id)']_vars

\* C7 (minimize is mirrored): after minimizeModule(id) the module is minimized
\* and not active in the current view, its prevPos is the rectangle it had,
\* and the other view's stored records show it minimized and not active.
C7_MinimizeMirrored ==
    [][\A id \in ModuleIds :
          (HasId(items, id) /\ MinimizeModule(id)) =>
             /\ HasId(minimizedItems', id) /\ ~HasId(items', id)
             /\ minimizedItems'[Len(minimizedItems')].prevPos = Rect(Find(items, id))
             /\ HasId(store'[OtherMode(viewMode)].minimized, id)
             /\ ~HasId(store'[OtherMode(viewMode)].items, id)]_vars


\* C8 (view-switch round trip): for a module active in both views, a switch
\* shows the values of its shared properties as they are in the view left,
\* with orderIndex values 0..n-1 once each when the target is structured; the
\* switch back to free view shows the module at the same place of the list
\* with exactly the rectangle it had before the first switch and the same
\* shared values.
Shared(m) == [title |-> m.title, content |-> m.content, themeIndex |-> m.themeIndex]
AfterSwitch == ToggledItems(OtherMode(viewMode), items, store[OtherMode(viewMode)].items)
AfterSwitchBack == ToggledItems(viewMode, AfterSwitch, StoredList(items))
C8_SwitchRoundTrip ==
    LET shown == AfterSwitch
        back  == AfterSwitchBack
    IN \A k \in 1..Len(items) :
        HasId(store[OtherMode(viewMode)].items, items[k].i) =>
            /\ \E j \in 1..Len(shown) : shown[j].i = items[k].i
            /\ \A j \in 1..Len(shown) :
                  shown[j].i = items[k].i => Shared(shown[j]) = Shared(items[k])
            /\ viewMode = "free" =>
                  /\ \A j \in 1..Len(shown) : shown[j].orderIndex \in 0..(Len(shown) - 1)
                  /\ \A i, j \in 1..Len(shown) :
                        i # j => shown[i].orderIndex # shown[j].orderIndex
                  /\ k <= Len(back)
                  /\ back[k].i = items[k].i
                  /\ Rect(back[k]) = Rect(items[k])
                  /\ Shared(back[k]) = Shared(items[k])
\* an edited module shown in structured view after the switch, its free
\* rectangle kept in the free view's stored records
C8_Witness ==
    /\ viewMode = "structured"
    /\ \E k \in 1..Len(items) : \E j \in 1..Len(store["free"].items) :
          /\ items[k].title = "Bar"
          /\ store["free"].items[j].i = items[k].i
          /\ store["free"].items[j].x = 2 /\ store["free"].items[j].y = 3
          /\ items[k].orderIndex = 0

\* C9 (createModule writes both stores): a successful drop of a new module
\* puts one record of it in the current view's active list and one in the
\* other view's stored active list; the free record has the dropped
\* rectangle, the structured record has orderIndex max + 1, or 0 when the
\* structured list was empty; a later switch has no record of it to add.
CountId(list, id) == Cardinality({k \in 1..Len(list) : list[k].i = id})
C9_CreateBothStores ==
    [][\A type \in ModuleTypes, cell \in DropCells :
          (OnDropCreate(type, cell) /\ nextId' = nextId + 1) =>
             LET structuredBefore == ActiveOf("structured")
                 orders == {IF structuredBefore[k].orderIndex < 0 THEN 0
                            ELSE structuredBefore[k].orderIndex :
                               k \in 1..Len(structuredBefore)}
                 expected == IF orders = {} THEN 0
                             ELSE (CHOOSE a \in orders : \A b \in orders : b <= a) + 1
                 freeRecord == Find(ActiveOf("free")', nextId)
                 structuredRecord == Find(ActiveOf("structured")', nextId)
             IN /\ CountId(items', nextId) = 1
                /\ CountId(store'[OtherMode(viewMode)].items, nextId) = 1
                /\ freeRecord.w = SpecW(type) /\ freeRecord.h = SpecH(type)
                /\ viewMode = "free" => freeRecord.x = cell[1] /\ freeRecord.y = cell[2]
                /\ structuredRecord.orderIndex = expected
                /\ freeRecord.type = type /\ structuredRecord.type = type
                /\ ~HasId(ItemsToAdd(store'[OtherMode(viewMode)].items, items'), nextId)]_vars
\* a second module was dropped while the structured list held the first
C9_Witness ==
    /\ viewMode = "free"
    /\ \E k \in 1..Len(items) : \E j \in 1..Len(store["structured"].items) :
          /\ items[k].i = 2 /\ items[k].x = 5 /\ items[k].y = 0
          /\ store["structured"].items[j].i = 2
          /\ store["structured"].items[j].orderIndex = 1

\* C10 (updateContent mirroring and frame): updateContent(id, patch) puts the
\* patched values in every record of id, active or minimized, of both views,
\* and changes nothing else: no rectangle, no orderIndex, no other module, and
\* no module's membership of a list.
PatchedFrom(before, after, id, data) ==
    /\ Len(after) = Len(before)
    /\ \A k \in 1..Len(before) :
          /\ after[k].i = before[k].i
          /\ Rect(after[k]) = Rect(before[k])
          /\ after[k].orderIndex = before[k].orderIndex
          /\ after[k].prevPos = before[k].prevPos
          /\ after[k].type = before[k].type
          /\ after[k].title = IF before[k].i = id /\ data.hasTitle THEN data.title
                              ELSE before[k].title
          /\ after[k].content = IF before[k].i = id /\ data.hasContent THEN data.content
                                ELSE before[k].content
          /\ after[k].themeIndex = IF before[k].i = id /\ data.hasTheme THEN data.themeIndex
                                   ELSE before[k].themeIndex
C10_UpdateMirrored ==
    [][\A id \in ModuleIds, data \in Patches :
          UpdateContent(id, data) =>
             \A mode \in Modes :
                /\ PatchedFrom(ActiveOf(mode), ActiveOf(mode)', id, data)
                /\ PatchedFrom(MinimizedOf(mode), MinimizedOf(mode)', id, data)]_vars
\* an edit made while the module is minimized in the other view
C10_Witness ==
    \E k \in 1..Len(items) : \E j \in 1..Len(store[OtherMode(viewMode)].minimized) :
        /\ store[OtherMode(viewMode)].minimized[j].i = items[k].i
        /\ items[k].title = "Bar"
        /\ store[OtherMode(viewMode)].minimized[j].title = "Bar"


\* C11 (downward completion cascade): after updateTodo(id, {done: v}) on an
\* existing task of an acyclic collection, the task and every transitive
\* descendant have done = v; on the tree R, C1, C2 with one grandchild under
\* each, completing R completes all five.
AcyclicTodos(todos) == \A id \in TodoIds(todos) : id \notin getDescendants(id, todos)
Task(id, parentId, done) ==
    [id |-> id, done |-> done, originModuleId |-> 1, parentId |-> parentId, images |-> <<>>,
            linkedEventId |-> NoId]
FiveTasks == <<Task(1, NoId, FALSE), Task(2, 1, FALSE), Task(3, 1, FALSE),
               Task(4, 2, FALSE), Task(5, 3, FALSE)>>
FiveTasksDone == UpdateDone(FiveTasks, 1, TRUE).todos
CascadeDown(id, v) ==
    \A k \in 1..Len(globalTodos') :
        globalTodos'[k].id \in {id} \cup getDescendants(id, globalTodos)
           => globalTodos'[k].done = v
C11_CascadeDown ==
    [][/\ \A k \in 1..Len(FiveTasksDone) : FiveTasksDone[k].done
       /\ \A id \in TaskIds, v \in BOOLEAN :
            (UpdateTodo(id, v) /\ HasTodo(globalTodos, id) /\ AcyclicTodos(globalTodos))
               => CascadeDown(id, v)]_vars
\* The same cascade where, in addition, no two tasks share an id
UniqueTodoIds(todos) ==
    \A j, k \in 1..Len(todos) : j # k => todos[j].id # todos[k].id
WellFormed(todos) == UniqueTodoIds(todos) /\ AcyclicTodos(todos)
C11_CascadeDown_UniqueIds ==
    [][\A id \in TaskIds, v \in BOOLEAN :
          (UpdateTodo(id, v) /\ HasTodo(globalTodos, id) /\ WellFormed(globalTodos))
             => CascadeDown(id, v)]_vars

\* C12 (un-completing propagates up only): after updateTodo(id, {done: false})
\* has returned, every strict ancestor of id has done = false, and every task
\* that is neither id, an ancestor nor a descendant of id is as it was.
AncestorIds(todos, id) == {a \in TodoIds(todos) : id \in getDescendants(a, todos)}
Returned == status' = "running"
ClearsUpOnly(id) ==
    /\ Len(globalTodos') = Len(globalTodos)
    /\ \A k \in 1..Len(globalTodos) :
          /\ globalTodos[k].id \in AncestorIds(globalTodos, id) => ~globalTodos'[k].done
          /\ globalTodos[k].id \notin ({id} \cup AncestorIds(globalTodos, id)
                                         \cup getDescendants(id, globalTodos))
                => globalTodos'[k] = globalTodos[k]
C12_ClearsUpOnly ==
    [][\A id \in TaskIds :
          (UpdateTodo(id, FALSE) /\ Returned /\ HasTodo(globalTodos, id)) => ClearsUpOnly(id)]_vars
C12_ClearsUpOnly_UniqueIds ==
    [][\A id \in TaskIds :
          (UpdateTodo(id, FALSE) /\ Returned /\ HasTodo(globalTodos, id)
             /\ UniqueTodoIds(globalTodos)) => ClearsUpOnly(id)]_vars

\* C13 (upward auto-completion): after updateTodo(id, {done: true}) has
\* returned, the i-th ancestor of id is done if the walk reached it, that is
\* if at each of the ancestors 1..i every direct child other than the one the
\* walk came from was done; an ancestor the walk did not reach keeps its done.
RECURSIVE AncestorChain(_, _, _)
AncestorChain(todos, id, fuel) ==
    IF fuel = 0 \/ ~HasTodo(todos, id) \/ FindTodo(todos, id).parentId = NoId THEN <<>>
    ELSE <<FindTodo(todos, id).parentId>>
            \o AncestorChain(todos, FindTodo(todos, id).parentId, fuel - 1)
CompletesUp(id) ==
    LET chain == AncestorChain(globalTodos, id, Len(globalTodos))
        from(i) == IF i = 1 THEN id ELSE chain[i - 1]
        othersDone(i) == \A k \in 1..Len(globalTodos) :
                            (globalTodos[k].parentId = chain[i] /\ globalTodos[k].id # from(i))
                               => globalTodos[k].done
        reached(i) == \A j \in 1..i : othersDone(j)
    IN \A i \in 1..Len(chain) : \A k \in 1..Len(globalTodos) :
          globalTodos[k].id = chain[i] =>
             globalTodos'[k].done = IF reached(i) THEN TRUE ELSE globalTodos[k].done
C13_CompletesUp ==
    [][\A id \in TaskIds :
          (UpdateTodo(id, TRUE) /\ Returned /\ HasTodo(globalTodos, id)) => CompletesUp(id)]_vars
C13_CompletesUp_UniqueIds ==
    [][\A id \in TaskIds :
          (UpdateTodo(id, TRUE) /\ Returned /\ HasTodo(globalTodos, id)
             /\ UniqueTodoIds(globalTodos)) => CompletesUp(id)]_vars

\* C14 (deleteTodo removes exactly the descendant closure): after
\* deleteTodo(id) has completed, no task with the id of `id` or of a task
\* reachable from it through parentId links is left, and the tasks left are
\* the other tasks, each with its fields, in their order.
RECURSIVE Remaining(_, _)
Remaining(todos, gone) ==
    IF todos = <<>> THEN <<>>
    ELSE IF Head(todos).id \in gone THEN Remaining(Tail(todos), gone)
         ELSE <<Head(todos)>> \o Remaining(Tail(todos), gone)
DeleteCompletes(id) == ~WalkDiverges(globalTodos, id)
\* every step of deleteTodo is one of these (tested first: it is cheap)
NoTaskAdded == Len(globalTodos') < Len(globalTodos) \/ globalTodos' = globalTodos
C14_DeleteClosure ==
    [][\A id \in TaskIds :
          (NoTaskAdded /\ DeleteTodo(id) /\ DeleteCompletes(id)) =>
             LET closure == {id} \cup getDescendants(id, globalTodos)
             IN /\ \A k \in 1..Len(globalTodos') : globalTodos'[k].id \notin closure
                /\ globalTodos' = Remaining(globalTodos, closure)]_vars
\* a parent was deleted with its child while another task stayed
\* (one module, tasks 1, 2 and 3 added, and the fifth call left task 1 alone)
C14_Witness ==
    /\ Len(globalTodos) = 1
    /\ globalTodos[1].id = 1
    /\ now = 3
    /\ nextId = 2
    /\ steps = 5

\* C15 (moveTodo): the task and its descendant closure get originModuleId =
\* target; the moved task's parentId is cleared if the target differs from the
\* module it was in and kept otherwise; each descendant keeps its parentId;
\* every task outside the closure is unchanged.
\* moveTodo(id, m) of a task in the collection: a step that returns keeps the
\* tasks in place and leaves the task in m (tested first: it is cheap)
MovesTask(id, m) ==
    /\ HasTodo(globalTodos, id)
    /\ Len(globalTodos') = Len(globalTodos)
    /\ globalTodos'[TodoIdx(globalTodos, id)].originModuleId = m
    /\ MoveTodo(id, m)
    /\ Returned
C15_MoveClosure ==
    [][\A id \in TaskIds, m \in ModuleIds :
          MovesTask(id, m) =>
             LET closure == {id} \cup getDescendants(id, globalTodos)
             IN /\ Len(globalTodos') = Len(globalTodos)
                /\ \A k \in 1..Len(globalTodos) :
                      IF globalTodos[k].id \in closure
                      THEN /\ globalTodos'[k].originModuleId = m
                           /\ globalTodos'[k].id = globalTodos[k].id
                           /\ globalTodos'[k].done = globalTodos[k].done
                           /\ globalTodos'[k].parentId =
                                 IF globalTodos[k].id = id /\ globalTodos[k].originModuleId # m
                                 THEN NoId ELSE globalTodos[k].parentId
                      ELSE globalTodos'[k] = globalTodos[k]]_vars
\* a child was moved to the other module with its own child
C15_Witness ==
    /\ Len(globalTodos) = 3
    /\ globalTodos[1].originModuleId = 1 /\ globalTodos[1].parentId = NoId
    /\ globalTodos[2].originModuleId = 2 /\ globalTodos[2].parentId = NoId
    /\ globalTodos[3].originModuleId = 2 /\ globalTodos[3].parentId = globalTodos[2].id
    /\ UniqueTodoIds(globalTodos)

\* C16 (reorderTodo placement): for an existing dragged task and an existing
\* target, before/after leaves the dragged task immediately before/after the
\* target with the target's parentId, inside gives it parentId = target; a
\* null target makes it a root at the end; originModuleId becomes the given
\* module; the set of ids and the order of the other tasks are unchanged.
\* (A task dropped before or after itself cannot be next to itself: only its
\* parentId, the one the target has, is required then; nothing is required of
\* a task dropped inside itself.)
IndexOf(todos, id) == CHOOSE k \in 1..Len(todos) : todos[k].id = id
ReorderPlaces(d, t, pos, m) ==
    LET others == Remaining(globalTodos, {d})
        k == IndexOf(globalTodos', d)
    IN /\ TodoIds(globalTodos') = TodoIds(globalTodos)
       /\ Remaining(globalTodos', {d}) = others
       /\ globalTodos'[k].originModuleId = m
       /\ globalTodos'[k].done = FindTodo(globalTodos, d).done
       /\ t = NoId => globalTodos'[k].parentId = NoId /\ k = Len(globalTodos')
       /\ (t \notin {NoId, d} /\ pos = "inside") => globalTodos'[k].parentId = t
       /\ (t # NoId /\ pos # "inside") =>
             globalTodos'[k].parentId = FindTodo(globalTodos, t).parentId
       /\ (t \notin {NoId, d} /\ pos = "before") =>
             k < Len(globalTodos') /\ globalTodos'[k + 1].id = t
       /\ (t \notin {NoId, d} /\ pos = "after") => k > 1 /\ globalTodos'[k - 1].id = t
C16_ReorderPlacement ==
    [][\A d \in TaskIds, t \in TaskIds \cup {NoId}, pos \in Positions, m \in ModuleIds :
          (ReorderTodo(d, t, pos, m) /\ HasTodo(globalTodos, d)
             /\ (t = NoId \/ HasTodo(globalTodos, t))) => ReorderPlaces(d, t, pos, m)]_vars
\* The same placement for a target other than the dragged task
C16_ReorderPlacement_Distinct ==
    [][\A d \in TaskIds, t \in TaskIds \cup {NoId}, pos \in Positions, m \in ModuleIds :
          (ReorderTodo(d, t, pos, m) /\ HasTodo(globalTodos, d) /\ t # d
             /\ (t = NoId \/ HasTodo(globalTodos, t)))
             => ReorderPlaces(d, t, pos, m)]_vars


\* C17 (unknown ids are no-ops): updateTodo, deleteTodo, moveTodo and
\* reorderTodo called with a task id (dragged or target) that is not in the
\* collection, and minimizeModule, restoreModule and requestDelete called with
\* a module id that is not in the list they search, leave the task collection
\* and every module list, shown or stored, as they were.
UnknownTask(id) == ~HasTodo(globalTodos, id)
UnknownIdCall ==
    \/ \E id \in TaskIds, v \in BOOLEAN : UnknownTask(id) /\ UpdateTodo(id, v)
    \/ \E id \in TaskIds : UnknownTask(id) /\ DeleteTodo(id)
    \/ \E id \in TaskIds, m \in ModuleIds : UnknownTask(id) /\ MoveTodo(id, m)
    \/ \E d \in TaskIds, t \in TaskIds \cup {NoId}, pos \in Positions, m \in ModuleIds :
          /\ UnknownTask(d) \/ (t # NoId /\ UnknownTask(t))
          /\ ReorderTodo(d, t, pos, m)
    \/ \E id \in ModuleIds : ~HasId(items, id) /\ MinimizeModule(id)
    \/ \E id \in ModuleIds : ~HasId(minimizedItems, id) /\ RestoreModule(id)
    \/ \E id \in ModuleIds : ~HasId(items, id) /\ RequestDelete(id)
C17_UnknownIdsNoOp ==
    [][UnknownIdCall => UNCHANGED <<globalTodos, items, minimizedItems, store>>]_vars
\* the same with the target of reorderTodo taken from the collection
UnknownIdCall_KnownTarget ==
    \/ \E id \in TaskIds, v \in BOOLEAN : UnknownTask(id) /\ UpdateTodo(id, v)
    \/ \E id \in TaskIds : UnknownTask(id) /\ DeleteTodo(id)
    \/ \E id \in TaskIds, m \in ModuleIds : UnknownTask(id) /\ MoveTodo(id, m)
    \/ \E d \in TaskIds, t \in TaskIds \cup {NoId}, pos \in Positions, m \in ModuleIds :
          UnknownTask(d) /\ ReorderTodo(d, t, pos, m)
    \/ \E id \in ModuleIds : ~HasId(items, id) /\ MinimizeModule(id)
    \/ \E id \in ModuleIds : ~HasId(minimizedItems, id) /\ RestoreModule(id)
    \/ \E id \in ModuleIds : ~HasId(items, id) /\ RequestDelete(id)
C17_UnknownIdsNoOp_KnownTarget ==
    [][UnknownIdCall_KnownTarget => UNCHANGED <<globalTodos, items, minimizedItems, store>>]_vars


\* C18 (task operations are total): updateTodo with a `done` update,
\* deleteTodo and moveTodo return on every task collection the program can
\* hold, one with a parentId cycle or a task that is its own parent included:
\* the descendant walk of the call returns and the application is still
\* running after it.
TaskOperation(id) ==
    \/ \E v \in BOOLEAN : UpdateTodo(id, v)
    \/ DeleteTodo(id)
    \/ \E m \in ModuleIds : MoveTodo(id, m)
C18_TaskOperationsTotal ==
    [][\A id \in TaskIds :
          TaskOperation(id) => ~WalkDiverges(globalTodos, id) /\ status' = "running"]_vars
\* the same on collections whose parentId links form no cycle
C18_TaskOperationsTotal_Acyclic ==
    [][\A id \in TaskIds :
          (AcyclicTodos(globalTodos) /\ TaskOperation(id))
             => ~WalkDiverges(globalTodos, id) /\ status' = "running"]_vars


\* C19 (cycle safety of tree reconstruction): a module's task collection in
\* which task A has parentId B and task B has parentId A is displayed as two
\* roots A and B, and displaying it neither fails nor runs forever.
TwoCycle(list, a, b) ==
    /\ a # b
    /\ \E k \in 1..Len(list) : list[k].id = a /\ list[k].parentId = b
    /\ \E k \in 1..Len(list) : list[k].id = b /\ list[k].parentId = a
C19_CycleShownAsRoots ==
    \A m \in TodoModuleIds :
        LET list == getVisibleTodos(m)
        IN \A a, b \in TodoIds(list) :
              TwoCycle(list, a, b) =>
                 /\ ~TodoListView(list).overflow
                 /\ {a, b} \subseteq RootRowIds(list)
\* what the view does with such a collection: it returns, and shows neither task
CountRows(rows, id) == Cardinality({k \in 1..Len(rows) : rows[k] = id})
C19_CycleNotShown ==
    \A m \in TodoModuleIds :
        LET list == getVisibleTodos(m)
        IN \A a, b \in TodoIds(list) :
              (TwoCycle(list, a, b) /\ UniqueTodoIds(list)) =>
                 /\ ~TodoListView(list).overflow
                 /\ CountRows(TodoListView(list).ids, a) = 0
                 /\ CountRows(TodoListView(list).ids, b) = 0


\* C20 (no task lost or duplicated in the view): for every module's task
\* collection the view is built without failure and shows every task id
\* exactly once; a task whose parentId is its own id, is the id of no task of
\* the collection or lies on a parentId cycle is a root row.  The view is a
\* function of the collection, so building it twice gives the same rows and
\* leaves the collection as it was.
Demoted(list, k) ==
    \/ list[k].parentId = list[k].id
    \/ list[k].parentId # NoId /\ ~HasTodo(list, list[k].parentId)
    \/ list[k].id \in getDescendants(list[k].id, list)
C20_EveryTaskOnce ==
    \A m \in TodoModuleIds :
        LET list == getVisibleTodos(m)
            view == TodoListView(list)
        IN /\ ~view.overflow
           /\ \A id \in TodoIds(list) : CountRows(view.ids, id) = 1
           /\ \A k \in 1..Len(list) : Demoted(list, k) => list[k].id \in RootRowIds(list)
\* the same for collections with unique ids, no cycle and every parent in the
\* same module
ParentsShown(list) ==
    \A k \in 1..Len(list) : list[k].parentId # NoId => HasTodo(list, list[k].parentId)
C20_EveryTaskOnce_WellFormed ==
    \A m \in TodoModuleIds :
        LET list == getVisibleTodos(m)
            view == TodoListView(list)
        IN (WellFormed(list) /\ ParentsShown(list)) =>
              /\ ~view.overflow
              /\ \A id \in TodoIds(list) : CountRows(view.ids, id) = 1


\* C21 (duplicate restore is a no-op): restoreModule(id) by a click, or a
\* restore drop, called in either view while the module is already in the
\* active list leaves the active list as it was.
RestoreCall(id) ==
    \/ RestoreModule(id)
    \/ \E cell \in DropCells : OnDropRestore(id, cell)
C21_DuplicateRestoreNoOp ==
    [][\A id \in ModuleIds :
          (HasId(items, id) /\ RestoreCall(id)) => items' = items]_vars
\* the same in structured view, where the handlers test for the duplicate
C21_DuplicateRestoreNoOp_Structured ==
    [][\A id \in ModuleIds :
          (viewMode = "structured" /\ HasId(items, id) /\ RestoreCall(id))
             => items' = items]_vars


\* C22 (minimize/restore round trip in free view): minimizeModule(id) records
\* the module with the rectangle, title, content and themeIndex it has, and a
\* restoreModule(id) that follows appends the module to the active list with
\* the rectangle and the shared values of that record; a restore drop puts it
\* at the drop cell with the recorded width and height.
LastOf(list) == list[Len(list)]
MinimizeRecords(id) ==
    LET item == Find(items, id)
        copy == LastOf(minimizedItems')
    IN /\ Len(minimizedItems') = Len(minimizedItems) + 1
       /\ copy.i = id
       /\ copy.prevPos = Rect(item)
       /\ Shared(copy) = Shared(item)
RestoreReturns(id, snap) ==
    LET back == LastOf(items')
    IN /\ Len(items') = Len(items) + 1
       /\ back.i = id
       /\ Rect(back) = snap.prevPos
       /\ Shared(back) = Shared(snap)
DropReturns(id, snap, cell) ==
    LET back == LastOf(items')
    IN /\ Len(items') = Len(items) + 1
       /\ back.i = id
       /\ Rect(back) = [x |-> cell[1], y |-> cell[2], w |-> snap.prevPos.w, h |-> snap.prevPos.h]
       /\ Shared(back) = Shared(snap)
\* the record of the latest minimizeModule(id) is the last one with that id
C22_MinimizeRestoreRoundTrip ==
    [][viewMode = "free" =>
         \A id \in ModuleIds :
            /\ (HasId(items, id) /\ MinimizeModule(id)) => MinimizeRecords(id)
            /\ (HasId(minimizedItems, id) /\ RestoreModule(id))
                  => RestoreReturns(id, LastWith(minimizedItems, id))
            /\ \A cell \in DropCells :
                  (HasId(minimizedItems, id) /\ OnDropRestore(id, cell))
                     => DropReturns(id, LastWith(minimizedItems, id), cell)]_vars
\* the same for a module that is not minimized already when it is minimized
C22_MinimizeRestoreRoundTrip_Once ==
    [][viewMode = "free" =>
         \A id \in ModuleIds :
            /\ (HasId(items, id) /\ MinimizeModule(id)) => MinimizeRecords(id)
            /\ (CountId(minimizedItems, id) = 1 /\ RestoreModule(id))
                  => RestoreReturns(id, Find(minimizedItems, id))
            /\ \A cell \in DropCells :
                  (CountId(minimizedItems, id) = 1 /\ OnDropRestore(id, cell))
                     => DropReturns(id, Find(minimizedItems, id), cell)]_vars


\* C23 (module deletion cleans attachments): when a task-list module is
\* deleted, no attachment file of a task destroyed by the deletion is left in
\* the image store.
DestroyedWith(id) ==
    {k \in 1..Len(globalTodos) : globalTodos[k].originModuleId = id}
C23_ModuleDeleteCleansAttachments ==
    [][\A id \in ModuleIds :
          PerformDeleteStep(id) =>
             \A k \in DestroyedWith(id) :
                ImagePaths(globalTodos[k]) \cap imageFiles' = {}]_vars

\* C30 (attachment failures never block task deletion): a deleteTodo(id)
\* during which removeImage failed for some attachment of the task or of a
\* descendant, so that the file is still stored, removes the task and its
\* descendant closure all the same.
RemovalFailed(id) ==
    \E path \in ImagesOfId(globalTodos, id) \cup DescendantImages(globalTodos, id) :
        path \in imageFiles /\ path \in imageFiles'
C30_FailuresDoNotBlockDelete ==
    [][\A id \in TaskIds :
          (HasTodo(globalTodos, id) /\ DeleteTodo(id) /\ DeleteCompletes(id)
             /\ RemovalFailed(id))
             => globalTodos' = Remaining(globalTodos, {id} \cup getDescendants(id, globalTodos))]_vars
\* the only module ever created is on screen, its only task had an attachment
\* and was deleted, and the attachment file is still stored
C30_Witness ==
    /\ nextId = 2
    /\ Len(items) = 1
    /\ globalTodos = <<>>
    /\ imageFiles = {1}
    /\ steps = 4


\* C29 (structured order survives a trip through free view): a
\* toggleViewMode from free to structured view yields active modules whose
\* orderIndex values are 0..n-1 in list order; the modules that are in the
\* free view and in the structured store come in the order the structured
\* store records, and the modules of the free view alone come after them.
IdSeq(list) == [k \in 1..Len(list) |-> list[k].i]
Restrict(seq, S) == SelectSeq(seq, LAMBDA e : e \in S)
ToStructured == viewMode = "free" /\ ToggleViewMode
ContiguousOrder(list) == \A k \in 1..Len(list) : list[k].orderIndex = k - 1
RecordedOrder == IdSeq(getSortedItems(store["structured"].items))
KeepsRecordedOrder ==
    LET both == Ids(items) \cap Ids(store["structured"].items)
        shown == IdSeq(items')
    IN /\ Restrict(shown, both) = Restrict(RecordedOrder, both)
       /\ \A j, k \in 1..Len(shown) :
             (shown[j] \in both /\ shown[k] \notin both) => j < k
C29_StructuredOrderSurvives ==
    [][ToStructured => ContiguousOrder(items') /\ KeepsRecordedOrder]_vars
\* the part that holds: the switch to structured view numbers the modules 0..n-1
C29_SwitchNumbersContiguously ==
    [][ToStructured => ContiguousOrder(items')]_vars


\* C27 (structured drag reorder commit): when a drag in structured view ends
\* over another module, the insertion index (the place of that module in the
\* displayed order) lies in 0..count of the other modules, the dragged module
\* ends at that index, the other modules keep their relative order, the
\* orderIndex values are 0..n-1 in that order, and no module is dropped or
\* duplicated.
DragCommitted(active, over) ==
    LET shownBefore == IdSeq(getSortedItems(items))
        others      == Restrict(shownBefore, Ids(items) \ {active})
        insertion   == FindIdx(getSortedItems(items), over) - 1
        shownAfter  == IdSeq(items')
    IN /\ insertion \in 0..Len(others)
       /\ shownAfter[insertion + 1] = active
       /\ Restrict(shownAfter, Ids(items) \ {active}) = others
       /\ ContiguousOrder(items')
       /\ Ids(items') = Ids(items)
       /\ \A id \in ModuleIds : CountId(items', id) <= CountId(items, id)
C28_PreviewNotPersisted ==
    [][(activeId # NoId /\ store' # store)
          => (activeId' = NoId /\ overId \notin {NoId, activeId})]_vars
\* a drag in progress whose pointer has moved over another module
C28_Witness ==
    /\ viewMode = "structured"
    /\ activeId # NoId
    /\ overId \notin {NoId, activeId}
    /\ HasId(items, overId)
\* C26: one run of the auto-check sets done on exactly the tasks that are not
\* done and whose linked event lies before the instant the run reads, and
\* changes nothing else: no other field, no other task, no task added or
\* removed, no done task cleared.  A second run at the same instant changes
\* nothing, and a run at any later instant gives the same tasks whether or not
\* this run took place.
Due(todo, t) ==
    /\ todo.linkedEventId # NoId
    /\ ~todo.done
    /\ \E k \in 1..Len(allEvents) :
          /\ allEvents[k].id = todo.linkedEventId
          /\ \A j \in 1..(k - 1) : allEvents[j].id # todo.linkedEventId
          /\ evtDate(allEvents[k]) < t
SweptExactly(t) ==
    /\ Len(globalTodos') = Len(globalTodos)
    /\ \A k \in 1..Len(globalTodos) :
          /\ globalTodos'[k] = IF Due(globalTodos[k], t)
                               THEN [globalTodos[k] EXCEPT !.done = TRUE]
                               ELSE globalTodos[k]
          /\ globalTodos[k].done => globalTodos'[k].done
C26_SweepIdempotentMonotone ==
    [][\A t \in Instants :
          AutoCheck(t) =>
             /\ SweptExactly(t)
             /\ AutoChecked(globalTodos', allEvents, t) = globalTodos'
             /\ \A later \in Instants :
                   later >= t => AutoChecked(globalTodos', allEvents, later)
                                    = AutoChecked(globalTodos, allEvents, later)]_vars
\* the run at instant 3 has checked the task linked to the event of instant 2
C26_Witness ==
    /\ now = 3
    /\ steps = 5
    /\ Len(globalTodos) = 1
    /\ Len(globalEvents) = 1
    /\ globalTodos[1].id = 1
    /\ globalEvents[1].id = 2
    /\ globalTodos[1].linkedEventId = 2
    /\ evtDate(globalEvents[1]) = 2
    /\ globalTodos[1].done
\* C24: when a write of the other view's records throws during a create, an
\* update, a restore or a delete, the change to the current view's lists and
\* to the tasks is made all the same, the drop flag and the pending delete
\* confirmation are cleared, and the order indices of the active view stay
\* contiguous if they were.
KeepsOrder == C1_OrderContiguity => C1_OrderContiguity'
CreateKeptOnFailure ==
    \A type \in ModuleTypes, cell \in DropCells :
        OnDropCreateThrows(type, cell) =>
            /\ HasId(items', nextId)
            /\ ~isDropping'
UpdateKeptOnFailure ==
    \A id \in ModuleIds, at \in WriteFailures :
        UpdateContentThrows(id, ContentPatch, at) =>
            /\ items' = PatchList(items, id, ContentPatch)
            /\ minimizedItems' = PatchList(minimizedItems, id, ContentPatch)
RestoreKeptOnFailure ==
    \A id \in ModuleIds, at \in WriteFailures :
        /\ RestoreModuleThrows(id, at) =>
              HasId(items', id) /\ ~HasId(minimizedItems', id)
        /\ \A cell \in DropCells :
              OnDropRestoreThrows(id, cell, at) =>
                 HasId(items', id) /\ ~HasId(minimizedItems', id) /\ ~isDropping'
DeleteKeptOnFailure ==
    \A id \in ModuleIds, at \in WriteFailures :
        (RequestDeleteThrows(id, at) \/ (deleteConfirmId = id /\ ConfirmDeleteThrows(at))) =>
            /\ ~HasId(items', id)
            /\ \A k \in 1..Len(globalTodos') : globalTodos'[k].originModuleId # id
            /\ deleteConfirmId' = NoId
MirrorWriteThrows ==
    \/ \E type \in ModuleTypes, cell \in DropCells : OnDropCreateThrows(type, cell)
    \/ \E id \in ModuleIds, at \in WriteFailures :
          \/ UpdateContentThrows(id, ContentPatch, at)
          \/ RestoreModuleThrows(id, at)
          \/ \E cell \in DropCells : OnDropRestoreThrows(id, cell, at)
          \/ RequestDeleteThrows(id, at)
    \/ \E at \in WriteFailures : ConfirmDeleteThrows(at)
C24_MirrorFailureKeepsPrimary ==
    [][/\ CreateKeptOnFailure
       /\ UpdateKeptOnFailure
       /\ RestoreKeptOnFailure
       /\ DeleteKeptOnFailure
       /\ MirrorWriteThrows => KeepsOrder]_vars
\* C24, the part that holds: the change to the current view's active list and
\* to the tasks is made whichever write throws
C24_PrimaryChangeKept ==
    [][/\ \A type \in ModuleTypes, cell \in DropCells :
             OnDropCreateThrows(type, cell) => HasId(items', nextId)
       /\ \A id \in ModuleIds, at \in WriteFailures :
             /\ UpdateContentThrows(id, ContentPatch, at)
                   => items' = PatchList(items, id, ContentPatch)
             /\ RestoreModuleThrows(id, at)
                   => HasId(items', id) /\ ~HasId(minimizedItems', id)
             /\ (RequestDeleteThrows(id, at) \/ (deleteConfirmId = id /\ ConfirmDeleteThrows(at)))
                   => /\ ~HasId(items', id)
                      /\ \A k \in 1..Len(globalTodos') : globalTodos'[k].originModuleId # id]_vars

\* C25: a restore or a delete either updates both of the other view's stored
\* records, its list and its minimized list, or leaves both as they were,
\* also when one of the two writes throws.
BothOrNeither(applied) ==
    LET o == OtherMode(viewMode)
    IN store'[o] = store[o] \/ store'[o] = applied[o]
DeleteOther(id) ==
    LET o == OtherMode(viewMode)
    IN [store EXCEPT ![o] = [items |-> Without(store[o].items, id),
                             minimized |-> Without(store[o].minimized, id)]]
C25_MirrorAllOrNothing ==
    [][\A id \in ModuleIds :
          /\ \A at \in WriteFailures :
                /\ RestoreModuleThrows(id, at)
                      => BothOrNeither(RestoreOther(store, OtherMode(viewMode), id))
                /\ (\E cell \in DropCells : OnDropRestoreThrows(id, cell, at))
                      => BothOrNeither(RestoreOther(store, OtherMode(viewMode), id))
                /\ (RequestDeleteThrows(id, at) \/ (deleteConfirmId = id /\ ConfirmDeleteThrows(at)))
                      => BothOrNeither(DeleteOther(id))
          /\ (HasId(minimizedItems, id) /\ RestoreModule(id))
                => BothOrNeither(RestoreOther(store, OtherMode(viewMode), id))
          /\ (HasId(items, id) /\ RequestDelete(id) /\ deleteConfirmId' = NoId)
                => BothOrNeither(DeleteOther(id))]_vars
\* C25, the part that holds: a write that throws first leaves both records of
\* the other view as they were
C25_FirstWriteFailureLeavesBoth ==
    [][\A id \in ModuleIds :
          (\/ RestoreModuleThrows(id, 1)
           \/ RequestDeleteThrows(id, 1)
           \/ (deleteConfirmId = id /\ ConfirmDeleteThrows(1)))
             => store'[OtherMode(viewMode)] = store[OtherMode(viewMode)]]_vars
\* C31: no task ever has more than one cover image.  A handleAddImage or a
\* handleRemoveImage on tasks that each have exactly one cover among their
\* images, if any, leaves them so: the first image added to a task is its
\* cover, a later one leaves the cover where it is, and when the cover is
\* removed the first image left is the cover.
Covers(todo) == {k \in 1..Len(todo.images) : todo.images[k].isCover}
AtMostOneCover(todos) == \A k \in 1..Len(todos) : Cardinality(Covers(todos[k])) <= 1
OneCoverIfAny(todos) ==
    \A k \in 1..Len(todos) :
        Len(todos[k].images) > 0 => Cardinality(Covers(todos[k])) = 1
CoverId(todo) == todo.images[CHOOSE k \in Covers(todo) : TRUE].id
AddKeepsCover(id) ==
    \A k \in 1..Len(globalTodos') :
        (globalTodos'[k].id = id /\ Len(globalTodos'[k].images) > 0) =>
            CoverId(globalTodos'[k]) =
                IF Len(FindTodo(globalTodos, id).images) = 0
                THEN globalTodos'[k].images[1].id
                ELSE CoverId(FindTodo(globalTodos, id))
RemoveKeepsCover(id, img) ==
    \A k \in 1..Len(globalTodos') :
        (globalTodos'[k].id = id /\ Len(globalTodos'[k].images) > 0) =>
            CoverId(globalTodos'[k]) =
                IF CoverId(FindTodo(globalTodos, id)) = img
                THEN globalTodos'[k].images[1].id
                ELSE CoverId(FindTodo(globalTodos, id))
C31_CoverUnique ==
    [][/\ AtMostOneCover(globalTodos')
       /\ \A id \in TaskIds :
             (HasTodo(globalTodos, id) /\ OneCoverIfAny(globalTodos)) =>
                /\ HandleAddImage(id, "ok") => OneCoverIfAny(globalTodos') /\ AddKeepsCover(id)
                /\ \A img \in ImageIds :
                      (HasImage(FindTodo(globalTodos, id).images, img)
                         /\ HandleRemoveImage(id, img, FALSE))
                      => OneCoverIfAny(globalTodos') /\ RemoveKeepsCover(id, img)]_vars
\* two images were added to a task and the first, its cover, was removed
C31_Witness ==
    /\ Len(globalTodos) = 1
    /\ Len(globalTodos[1].images) = 1
    /\ globalTodos[1].images[1].id = 2
    /\ globalTodos[1].images[1].isCover
    /\ imageFiles = {2}
    /\ steps = 5
\* C32: every task that has a parent is in the module of that parent.
NoStraddle(todos) ==
    \A j, k \in 1..Len(todos) :
        todos[j].parentId = todos[k].id => todos[j].originModuleId = todos[k].originModuleId
C32_NoStraddle == NoStraddle(globalTodos)
\* C32, the part that holds: with unique ids, a moveTodo, and a reorderTodo of
\* a task within its own module onto a target of that module, keep every task
\* in the module of its parent
C32_NoStraddle_WithinModule ==
    [][(NoStraddle(globalTodos) /\ UniqueTodoIds(globalTodos)) =>
          /\ \A id \in TaskIds, m \in ModuleIds :
                (HasTodo(globalTodos, id) /\ MoveTodo(id, m)) => NoStraddle(globalTodos')
          /\ \A d \in TaskIds, t \in TaskIds \cup {NoId}, pos \in Positions, m \in ModuleIds :
                (/\ HasTodo(globalTodos, d)
                 /\ FindTodo(globalTodos, d).originModuleId = m
                 /\ t # NoId => (HasTodo(globalTodos, t)
                                   /\ FindTodo(globalTodos, t).originModuleId = m)
                 /\ ReorderTodo(d, t, pos, m))
                => NoStraddle(globalTodos')]_vars
\* C33: no two tasks of the collection have the same id.
C33_TaskIdsUnique ==
    \A j, k \in 1..Len(globalTodos) : j # k => globalTodos[j].id # globalTodos[k].id
\* C33, the part that holds: the ids stay unique through every operation but
\* an addTodo that reads the clock within the tick of an earlier reading
C33_UniqueAcrossTicks ==
    [][(UniqueTodoIds(globalTodos) /\ (Len(globalTodos') <= Len(globalTodos) \/ now' > now))
          => UniqueTodoIds(globalTodos')]_vars
\* C34: a key that has no record, or whose record is not JSON, is read as the
\* default: the mount does not fail, the view mode read so is 'free', the
\* tasks and the events read so are empty lists, and the module lists are
\* what they are for an empty stored list (empty, unless the record of the
\* earlier version is readable and has modules).
Unreadable(kind) == kind \in {"absent", "garbage"}
EmptyList == [thrown |-> FALSE, isList |-> TRUE, val |-> <<>>]
StoredOrEmpty(kind, saved) ==
    IF Unreadable(kind) THEN EmptyList ELSE [EmptyList EXCEPT !.val = saved]
SameAfterRestart ==
    /\ status' = "running"
    /\ viewMode' = viewMode
    /\ items' = StoredList(items)
    /\ minimizedItems' = StoredList(minimizedItems)
C39_ReloadRoundTrip ==
    [][(nextId' = nextId /\ now' = now /\ Startup(AllStored)) => SameAfterRestart]_vars
\* C39, the part that holds: the restart gives the same view mode, and the
\* same list wherever the list is not empty or the earlier version's record is
C39_ReloadRoundTrip_NoLegacy ==
    [][(nextId' = nextId /\ now' = now /\ Startup(AllStored)) =>
          /\ status' = "running"
          /\ viewMode' = viewMode
          /\ (Len(items) > 0 \/ Len(store["legacy"].items) = 0) => items' = StoredList(items)
          /\ (Len(minimizedItems) > 0 \/ Len(store["legacy"].minimized) = 0)
                => minimizedItems' = StoredList(minimizedItems)]_vars
\* C35: at most one module of type clock exists in the current view, the
\* active and the minimized list counted together.
ClockIds(list) == {list[k].i : k \in {j \in 1..Len(list) : list[j].type = "clock"}}
C35_AtMostOneClock ==
    Cardinality(ClockIds(items) \cup ClockIds(minimizedItems)) <= 1
\* C35, the part that holds: a drop of a clock while the active list holds a
\* clock changes nothing of the program's state.
C35_RejectedDropChangesNothing ==
    [][\A cell \in DropCells :
          (nextId' = nextId /\ ClockIds(items) # {} /\ OnDropCreate("clock", cell))
              => UNCHANGED prog]_vars
\* C36: no module id occurs more than once in the active list of the
\* current view, nor more than once in its minimized list.
NoDuplicateIds(list) == Cardinality(Ids(list)) = Len(list)
C36_NoDuplicateIds ==
    NoDuplicateIds(items) /\ NoDuplicateIds(minimizedItems)
\* C36, the part that holds: a module that is in one list only stays without
\* duplicates, so the lists are duplicate free as long as no module is active
\* and minimized at once.
C36_NoDuplicateIds_WhileExclusive ==
    [][(C36_NoDuplicateIds /\ Ids(items) \cap Ids(minimizedItems) = {})
          => C36_NoDuplicateIds']_vars
\* ---------------------------------------------------------------------------
\* Toolbar and minimized-bar drag gestures
\* ---------------------------------------------------------------------------
\* hasClock (1401) disables the clock button of the toolbar (1419, 1421)
hasClock == \E k \in 1..Len(items) : items[k].type = "clock"
\* onDragStart of a toolbar button (641-646)
OnDragStart(type) ==
    /\ Called
    /\ dragging = "none"
    /\ ~(type = "clock" /\ hasClock)
    /\ isDropping' = TRUE
    /\ dragging' = type
    /\ UNCHANGED prog
    /\ UNCHANGED other
\* onDragStart of a module of the minimized bar (1952-1955)
ChipDragStart(id) ==
    /\ Called
    /\ dragging = "none"
    /\ HasId(minimizedItems, id)
    /\ isDropping' = TRUE
    /\ dragging' = "chip"
    /\ UNCHANGED prog
    /\ UNCHANGED other
\* the dragged button is dropped on the grid: onDrop (648-782) with the
\* draggingType set at the start
GridDrop(cell) == dragging \in ModuleTypes /\ OnDropCreate(dragging, cell)
\* the dragged minimized module is dropped on the grid: onDrop with restoreId
ChipDrop(id, cell) == dragging = "chip" /\ OnDropRestore(id, cell)
\* the drag is released outside the grid, or ended with Escape: the browser
\* ends the gesture and no handler of the program runs (neither the toolbar
\* buttons, 1421, nor the minimized modules, 1949-1956, have an onDragEnd)
DragCancel ==
    /\ Called
    /\ dragging # "none"
    /\ dragging' = "none"
    /\ UNCHANGED prog
    /\ UNCHANGED <<other, isDropping>>
\* the rectangles the grid reports for a moved or resized module
MoveRects == {[x |-> 1, y |-> 1, w |-> 20, h |-> 10], [x |-> 40, y |-> 2, w |-> 16, h |-> 12]}
\* the layout the grid reports after module id was moved or resized to rect
MovedLayout(list, id, rect) ==
    [k \in 1..Len(list) |->
        IF list[k].i = id
        THEN [i |-> id, x |-> rect.x, y |-> rect.y, w |-> rect.w, h |-> rect.h]
        ELSE [i |-> list[k].i, x |-> list[k].x, y |-> list[k].y,
              w |-> list[k].w, h |-> list[k].h]]
\* prevItems.map(item => { match = newLayout.find(l => l.i === item.i); ... }) (1228-1231)
ApplyLayout(list, newLayout) ==
    [k \in 1..Len(list) |->
        IF HasId(newLayout, list[k].i)
        THEN LET match == Find(newLayout, list[k].i)
             IN [list[k] EXCEPT !.x = match.x, !.y = match.y, !.w = match.w, !.h = match.h]
        ELSE list[k]]
\* the structured branch (1206-1223): the layout sorted by x, each module
\* found in items snapped to its column
SnapLayout(list, newLayout) ==
    LET sortedLayout == SortByX(newLayout)
        found == SelectSeq(sortedLayout, LAMBDA l : HasId(list, l.i))
    IN [k \in 1..Len(found) |-> Column(Find(list, found[k].i), (k - 1) * ColumnWidth)]
\* handleLayoutChange (1197-1233), called by the grid with the new layout
HandleLayoutChange(id, rect) ==
    /\ Called
    /\ DropEnabled
    /\ HasId(items, id)
    /\ LET newLayout == MovedLayout(items, id, rect)
           items1 ==
               IF isDropping THEN items
               ELSE IF viewMode = "structured"
                    THEN IF draggedItemId # NoId THEN items
                         ELSE SnapLayout(items, newLayout)
                    ELSE ApplyLayout(items, newLayout)
       IN /\ items' = items1
          /\ store' = Persist(viewMode, items1, minimizedItems, store)
    /\ UNCHANGED <<viewMode, minimizedItems, globalTodos, deleteConfirmId, nextId, now, status>>
    /\ UNCHANGED aux
    /\ InBounds'
GestureNext ==
    \/ \E type \in ModuleTypes : OnDragStart(type)
    \/ \E id \in ModuleIds : ChipDragStart(id)
    \/ \E cell \in DropCells : GridDrop(cell)
    \/ \E id \in ModuleIds, cell \in DropCells : ChipDrop(id, cell)
    \/ DragCancel
    \/ dragging = "none" /\ \E id \in ModuleIds : MinimizeModule(id)
    \/ dragging = "none" /\ ToggleViewMode
    \/ \E id \in ModuleIds, rect \in MoveRects : HandleLayoutChange(id, rect)
SpecGesture == Init /\ [][GestureNext]_vars
\* C38: the dropping flag is set only while a toolbar or minimized-bar drag
\* is in progress: once the gesture has ended, by a drop on the grid, a
\* rejected drop or a release outside the grid, isDropping is false.
C38_FlagDoesNotStick == dragging = "none" => ~isDropping
\* C38, the part that holds: every drop on the grid, accepted or rejected,
\* clears the flag,
C38_DropClearsFlag ==
    [][(dragging # "none" /\ dragging' = "none" /\ ~DragCancel) => ~isDropping']_vars
\* and with the flag cleared a free-view move or resize reported through
\* handleLayoutChange is applied to the module's x, y, w and h.
C38_LayoutAppliedWhenClear ==
    [][\A id \in ModuleIds, rect \in MoveRects :
          (~isDropping /\ viewMode = "free" /\ HasId(items, id)
             /\ HandleLayoutChange(id, rect))
          => /\ HasId(items', id)
             /\ LET m == Find(items', id)
                IN <<m.x, m.y, m.w, m.h>> = <<rect.x, rect.y, rect.w, rect.h>>]_vars
\* C38, the consequence the spec draws: a move or resize reported after the
\* gesture has ended is applied
C38_LaterLayoutChangeApplied ==
    [][\A id \in ModuleIds, rect \in MoveRects :
          (dragging = "none" /\ viewMode = "free" /\ HasId(items, id)
             /\ HandleLayoutChange(id, rect))
          => LET m == Find(items', id)
             IN <<m.x, m.y, m.w, m.h>> = <<rect.x, rect.y, rect.w, rect.h>>]_vars
\* ---------------------------------------------------------------------------
\* deleteTodo (1003-1040) await by await
\* ---------------------------------------------------------------------------
\* The paths deleteTodo removes, read from the globalTodos of the render it
\* was called in: the task's own images (1010-1019), then those of its
\* descendants (1022-1034), which are not reached when getDescendants
\* overflows the stack
DeletePaths(todos, id) ==
    IF WalkDiverges(todos, id) THEN ImagesOfId(todos, id)
    ELSE ImagesOfId(todos, id) \cup DescendantImages(todos, id)
\* The call up to its first await: removeImage runs (imageUtils.ts 202-219
\* has no await of its own) and the function is suspended.  A call with no
\* path to remove reaches no await and is DeleteTodo.
DeleteTodoStart(id, path, throws) ==
    /\ Called
    /\ deleting = NoDelete
    /\ path \in DeletePaths(globalTodos, id)
    /\ throws => path \in imageFiles
    /\ imageFiles' = RemoveImages(imageFiles, {path}, IF throws THEN {path} ELSE {})
    /\ deleting' = [id |-> id,
                    pending |-> DeletePaths(globalTodos, id) \ {path},
                    overflows |-> WalkDiverges(globalTodos, id)]
    /\ UNCHANGED prog
    /\ UNCHANGED <<nextImage, drag, globalEvents, isDropping, dragging>>
\* The call resumed with a path left: the next removeImage and the next await
DeleteTodoAwait(path, throws) ==
    /\ Called
    /\ deleting # NoDelete
    /\ path \in deleting.pending
    /\ throws => path \in imageFiles
    /\ imageFiles' = RemoveImages(imageFiles, {path}, IF throws THEN {path} ELSE {})
    /\ deleting' = [deleting EXCEPT !.pending = @ \ {path}]
    /\ UNCHANGED prog
    /\ UNCHANGED <<nextImage, drag, globalEvents, isDropping, dragging>>
\* The call resumed after the last await: the state update (1036-1039), whose
\* updater walks the descendants in the collection of that moment; the call
\* whose own walk overflowed (1022) has thrown and updates nothing
DeleteTodoFinish ==
    /\ Called
    /\ deleting # NoDelete
    /\ deleting.pending = {}
    /\ IF deleting.overflows THEN UNCHANGED <<globalTodos, status>>
       ELSE IF WalkDiverges(globalTodos, deleting.id)
            THEN status' = "crashed" /\ UNCHANGED globalTodos
            ELSE globalTodos' = DeleteClosure(globalTodos, deleting.id) /\ UNCHANGED status
    /\ deleting' = NoDelete
    /\ UNCHANGED <<viewMode, items, minimizedItems, store, deleteConfirmId, nextId, now>>
    /\ UNCHANGED <<imageStore, drag, globalEvents, isDropping, dragging>>
    /\ InBounds'
\* Task lists with attachments while a deleteTodo call is suspended: tasks
\* are added, moved and reordered and images are added; every task is added
\* at a new reading of the clock, and no unlink fails
AsyncNext ==
    \/ OnDropCreate("todo", <<2, 3>>)
    \/ \E m \in TodoModuleIds : \E p \in {NoId} \cup VisibleTodoIds(m) :
          now < MaxClock /\ AddTodo(m, p, now + 1)
    \/ \E id \in TaskIds : HasTodo(globalTodos, id) /\ HandleAddImage(id, "ok")
    \/ \E id \in TaskIds :
          deleting = NoDelete /\ DeletePaths(globalTodos, id) = {} /\ DeleteTodo(id)
    \/ \E id \in TaskIds, path \in ImageIds : DeleteTodoStart(id, path, FALSE)
    \/ \E path \in ImageIds : DeleteTodoAwait(path, FALSE)
    \/ DeleteTodoFinish
    \/ \E id \in TaskIds, m \in ModuleIds : HasId(items, m) /\ MoveTodo(id, m)
    \/ \E d \in TaskIds, m \in ModuleIds :
          HasId(items, m) /\ ReorderTodo(d, NoId, "after", m)
\* The workspace with one task list on screen: the state the drop of a todo
\* module on cell (2,3) of the empty free view leaves
InitAsync ==
    /\ viewMode = "free"
    /\ items = <<NewItem(1, "todo", <<2, 3>>)>>
    /\ minimizedItems = <<>>
    /\ store = [m \in StoreKeys |->
                  IF m = "free" THEN [items |-> StoredList(items), minimized |-> <<>>]
                  ELSE IF m = "structured"
                  THEN [items |-> StoredList(<<OtherViewItem(items[1], "structured", <<>>)>>),
                        minimized |-> <<>>]
                  ELSE [items |-> <<>>, minimized |-> <<>>]]
    /\ globalTodos = <<>>
    /\ deleteConfirmId = NoId
    /\ nextId = 2
    /\ now = 1
    /\ status = "running"
    /\ imageFiles = {}
    /\ nextImage = 1
    /\ draggedItemId = NoId
    /\ activeId = NoId
    /\ overId = NoId
    /\ globalEvents = <<>>
    /\ isDropping = FALSE
    /\ dragging = "none"
    /\ deleting = NoDelete
    /\ steps = 0
SpecAsync == InitAsync /\ [][AsyncNext]_vars
\* C37: when a deleteTodo call completes, whatever task operations ran while
\* it was suspended, every task still in the collection has all its
\* attachment files stored and no attachment file of a task it removed is
\* stored any more.
FilesStored(todos, stored) ==
    \A k \in 1..Len(todos) : ImagePaths(todos[k]) \subseteq stored
RemovedTasks == {k \in 1..Len(globalTodos) : ~HasTodo(globalTodos', globalTodos[k].id)}
C37_ClosureAtCompletion ==
    [][(deleting # NoDelete /\ deleting' = NoDelete /\ DeleteTodoFinish
          /\ ~deleting.overflows /\ status' = "running") =>
          globalTodos' = Remaining(globalTodos,
                            {deleting.id} \cup getDescendants(deleting.id, globalTodos))]_vars
\* C37, the two halves apart
C37_SurvivorsKeepFiles ==
    [][(deleting # NoDelete /\ deleting' = NoDelete /\ DeleteTodoFinish) =>
          FilesStored(globalTodos', imageFiles')]_vars
C37_RemovedLoseFiles ==
    [][(deleting # NoDelete /\ deleting' = NoDelete /\ DeleteTodoFinish) =>
          \A k \in RemovedTasks : ImagePaths(globalTodos[k]) \cap imageFiles' = {}]_vars
====
